---- MODULE Spec2Model ----
(***************************************************************************)
(* State-machine model of the Jira backend: the integrations table and the *)
(* token lifecycle (auth-service.js, scheduler.js, web-server.js) and the  *)
(* comprehensive sync into the entity tables (comprehensive-sync.js,       *)
(* database.js).  In the token lifecycle and the account endpoints every   *)
(* await on the database or on an HTTP call is a step boundary; handlers   *)
(* interleave only at these boundaries.  A sync run is stepped by entity   *)
(* type.                                                                   *)
(***************************************************************************)
EXTENDS Integers, Sequences, FiniteSets, TLC

(***************************************************************************)
(* Bounds of the model.                                                    *)
(***************************************************************************)
MaxAccounts == 2       \* integrations rows: accounts authorized
MaxConcurrent == 1     \* refresh operations (cycle, health check, endpoint) in progress
MaxNowSec == 1         \* seconds that pass
MaxFailures == 3       \* non-2xx answers of the token endpoint to one account
MaxExpirySec == 302    \* latest expires_at, in seconds, of the rows given to needsRefresh
MaxRuns == 2           \* sync runs started
MaxFaults == 1         \* upstream fetches of sync runs that fail
MaxGone == 1           \* entity types whose entities are deleted upstream
MaxFetches == 3        \* getIssues calls of one syncIssuesToDatabase call

(***************************************************************************)
(* Values.  A TEXT column that holds a timestamp is <<>> when NULL and     *)
(* <<ms>> when it holds the ISO string of the instant ms (milliseconds).   *)
(***************************************************************************)
NULL == "null"
RefreshTokens == {"rt1", "rt2"}
ExpiresInValues == {300, 301}

\* The access token the token endpoint issues at the instant ms with the
\* lifetime expires_in (seconds): a token names its issue time and lifetime,
\* as the iat and exp claims of a JWT do.
IssuedAccessToken(ms, expires_in) == <<"at", ms, expires_in>>

toISOString(ms) == <<ms>>
DateOf(text) == text[1]

VARIABLES
  integrations,   \* the integrations table: row i has id i
  now,            \* Date.now(), in milliseconds
  isRunning,      \* TokenRefreshScheduler.isRunning
  cyc,            \* refreshAllTokens, by invocation: position, snapshot, loop index
  hc,             \* healthCheck: position, snapshot, loop index
  mr,             \* POST /api/integrations/:id/refresh-token: position, response
  rf,             \* refreshAccessToken: one call frame per caller
  cb,             \* GET /auth/callback requests in progress
  sp,             \* POST /api/accounts/:id/set-primary requests in progress
  store,          \* the entity tables: store[t] is the rows of table t, oldest first
  sy,             \* sync runs in progress, one per entry point
  started,        \* number of sync runs started so far
  faults,         \* number of failed upstream fetches so far
  gone,           \* the entity types whose entities were deleted in Jira
  projectSize,    \* the number of issues of the project in Jira
  nr,             \* the last needsRefresh evaluation (time, value), <<>> before any
  tempAccountInfo,  \* WebServer.tempAccountInfo: <<>> when null, else <<details>>
  issuedStates    \* the state values handed out by the authorization starts

vars ==
  <<integrations, now, isRunning, cyc, hc, mr, rf, cb, sp, store, sy, started, faults,
    gone, projectSize, nr, tempAccountInfo, issuedStates>>

authVars == <<tempAccountInfo, issuedStates>>
refreshProcs == <<isRunning, cyc, hc, mr, rf>>
syncVars == <<store, sy, started, faults, gone, projectSize>>

CycleInvocations == {"cycle", "cycle2"}

RefreshCallers == CycleInvocations \cup {"health", "manual"}
CallbackSlots == {"cb1", "cb2"}
SetPrimarySlots == {"sp1", "sp2"}
AccountIds == 1..MaxAccounts

NoTokens == [accessToken |-> <<>>, refreshToken |-> NULL, expiresAt |-> <<>>]
NoTokenData == [access_token |-> <<>>, refresh_token |-> NULL, expires_in |-> 0]

\* the bodies of the 2xx answers of the token endpoint at the instant ms
TokenData(ms) ==
  {[access_token |-> IssuedAccessToken(ms, e), refresh_token |-> r, expires_in |-> e] :
     r \in RefreshTokens \cup {NULL}, e \in ExpiresInValues}

(***************************************************************************)
(* Queries on the integrations table.                                      *)
(***************************************************************************)
RowIds == 1..Len(integrations)

\* SELECT * FROM integrations WHERE is_active = 1
getActiveIntegrations == SelectSeq(integrations, LAMBDA r : r.is_active)

\* the columns of the rows of that SELECT that refreshAllTokens reads
CycleSnapshot ==
  [i \in 1..Len(getActiveIntegrations) |->
     [id |-> getActiveIntegrations[i].id,
      expires_at |-> getActiveIntegrations[i].expires_at,
      refresh_failures |-> getActiveIntegrations[i].refresh_failures]]

\* the ids of the rows of that SELECT (healthCheck probes each with its token)
HealthSnapshot ==
  [i \in 1..Len(getActiveIntegrations) |-> getActiveIntegrations[i].id]

\* SELECT * FROM integrations WHERE id = ? AND is_active = 1
ActiveRow(id) == {integrations[i] : i \in {j \in RowIds : j = id /\ integrations[j].is_active}}

(***************************************************************************)
(* JiraAuthService.needsRefresh                                            *)
(***************************************************************************)
needsRefresh_NoBuffer(integration, nowMs) ==
  IF integration.expires_at = <<>> THEN TRUE
  ELSE DateOf(integration.expires_at) <= nowMs

needsRefresh(integration, nowMs) ==
  IF integration.expires_at = <<>> THEN TRUE
  ELSE LET expiresAt == DateOf(integration.expires_at)
           bufferTime == 5 * 60 * 1000
       IN  expiresAt <= nowMs + bufferTime

(***************************************************************************)
(* JiraAuthService.exchangeCodeForTokens and storeTokens, as run by        *)
(* GET /auth/callback.                                                     *)
(***************************************************************************)
exchangeCodeForTokens(tokenData, nowMs) ==
  [accessToken  |-> tokenData.access_token,
   refreshToken |-> tokenData.refresh_token,
   expiresAt    |-> toISOString(nowMs + tokenData.expires_in * 1000)]

\* the account details a form of POST /auth/start-with-account submits
AccountForms ==
  {[accountName |-> "Acme", accountEmail |-> "it@acme", jiraDomain |-> "acme.atlassian.net"],
   [accountName |-> "Globex", accountEmail |-> "it@globex",
    jiraDomain |-> "globex.atlassian.net"]}

\* the account details the callback uses when tempAccountInfo is not set
DefaultAccountInfo ==
  [accountName |-> "New Jira Account", accountEmail |-> "user@example.com",
   jiraDomain |-> "your-domain.atlassian.net"]

\* a variant of the row below that is inserted inactive
storeTokensRow_Inactive(id, tokens, isFirstIntegration, nowMs, accountInfo) ==
  [id |-> id,
   account_name |-> accountInfo.accountName,
   account_email |-> accountInfo.accountEmail,
   jira_domain |-> accountInfo.jiraDomain,
   access_token |-> tokens.accessToken,
   refresh_token |-> tokens.refreshToken,
   expires_at |-> tokens.expiresAt,
   last_refresh_at |-> toISOString(nowMs),
   refresh_failures |-> 0,
   is_active |-> FALSE,
   is_primary |-> isFirstIntegration]

\* the row INSERTed by storeTokens
storeTokensRow(id, tokens, isFirstIntegration, nowMs, accountInfo) ==
  [id |-> id,
   account_name |-> accountInfo.accountName,
   account_email |-> accountInfo.accountEmail,
   jira_domain |-> accountInfo.jiraDomain,
   access_token |-> tokens.accessToken,
   refresh_token |-> tokens.refreshToken,
   expires_at |-> tokens.expiresAt,
   last_refresh_at |-> toISOString(nowMs),
   refresh_failures |-> 0,
   is_active |-> TRUE,
   is_primary |-> isFirstIntegration]

CbIdle ==
  [pc |-> "idle", state |-> <<>>, tokens |-> NoTokens, isFirstIntegration |-> FALSE,
   accountInfo |-> DefaultAccountInfo]

InFlightCallbacks == Cardinality({s \in CallbackSlots : cb[s].pc # "idle"})

\* the request arrives with a code; the exchange request is sent
CallbackArrive(s) ==
  /\ cb[s].pc = "idle"
  /\ cb' = [cb EXCEPT ![s].pc = "exchange"]
  /\ UNCHANGED <<integrations, now, refreshProcs, sp, syncVars, nr, authVars>>

\* the request arrives with a code and the state parameter state (<<>> when
\* the parameter is missing); the handler reads state and never uses it
CallbackArriveWithState(s, state) ==
  /\ cb[s].pc = "idle"
  /\ cb' = [cb EXCEPT ![s].pc = "exchange", ![s].state = state]
  /\ UNCHANGED <<integrations, now, refreshProcs, sp, syncVars, nr, authVars>>

\* POST /auth/start: a state value is made and handed out in the URL
authStartState(nowMs) == <<"web-auth", nowMs>>

AuthStart ==
  /\ issuedStates' = issuedStates \cup {authStartState(now)}
  /\ UNCHANGED <<integrations, now, refreshProcs, cb, sp, syncVars, nr, tempAccountInfo>>

\* POST /auth/start-with-account: the account details are kept in
\* tempAccountInfo, a state value is made and handed out in the URL
authStartWithAccountState(nowMs, accountName) == <<"account", nowMs, accountName>>

AuthStartWithAccount(accountInfo) ==
  /\ tempAccountInfo' = <<accountInfo>>
  /\ issuedStates' =
       issuedStates \cup {authStartWithAccountState(now, accountInfo.accountName)}
  /\ UNCHANGED <<integrations, now, refreshProcs, cb, sp, syncVars, nr>>

\* the request arrives without a code
CallbackNoCode(s) ==
  /\ cb[s].pc = "idle"
  /\ cb' = [cb EXCEPT ![s].pc = "nocode"]
  /\ UNCHANGED <<integrations, now, refreshProcs, sp, syncVars, nr, authVars>>

\* if (!code) return res.status(400)
CallbackBadRequest(s) ==
  /\ cb[s].pc = "nocode"
  /\ cb' = [cb EXCEPT ![s] = CbIdle]
  /\ UNCHANGED <<integrations, now, refreshProcs, sp, syncVars, nr, authVars>>

\* the token endpoint answers non-2xx: exchangeCodeForTokens throws, 500
CallbackExchangeFailed(s) ==
  /\ cb[s].pc = "exchange"
  /\ cb' = [cb EXCEPT ![s] = CbIdle]
  /\ UNCHANGED <<integrations, now, refreshProcs, sp, syncVars, nr, authVars>>

\* const accountInfo = this.tempAccountInfo || { ... }
callbackAccountInfo(temp) == IF temp # <<>> THEN temp[1] ELSE DefaultAccountInfo

\* the token endpoint answers 2xx; the handler takes the account details
\* and storeTokens counts the active integrations
CallbackExchanged(s) ==
  /\ cb[s].pc = "exchange"
  /\ \E tokenData \in TokenData(now) :
       cb' = [cb EXCEPT ![s] =
                [pc |-> "insert",
                 state |-> cb[s].state,
                 tokens |-> exchangeCodeForTokens(tokenData, now),
                 isFirstIntegration |-> (Len(getActiveIntegrations) = 0),
                 accountInfo |-> callbackAccountInfo(tempAccountInfo)]]
  /\ UNCHANGED <<integrations, now, refreshProcs, sp, syncVars, nr, authVars>>

\* storeTokens inserts the row
CallbackInsert(s) ==
  /\ cb[s].pc = "insert"
  /\ integrations' =
       Append(integrations,
              storeTokensRow(Len(integrations) + 1, cb[s].tokens,
                             cb[s].isFirstIntegration, now, cb[s].accountInfo))
  /\ tempAccountInfo' = <<>>
  /\ cb' = [cb EXCEPT ![s] = CbIdle]
  /\ UNCHANGED <<now, refreshProcs, sp, syncVars, nr, issuedStates>>

(***************************************************************************)
(* POST /api/accounts/:id/set-primary and DELETE /api/accounts/:id         *)
(***************************************************************************)
SpIdle == [pc |-> "idle", id |-> 0]

\* UPDATE integrations SET is_primary = 0
SetPrimaryClear(s, id) ==
  /\ sp[s].pc = "idle"
  /\ integrations' = [i \in RowIds |-> [integrations[i] EXCEPT !.is_primary = FALSE]]
  /\ sp' = [sp EXCEPT ![s] = [pc |-> "set", id |-> id]]
  /\ UNCHANGED <<now, refreshProcs, cb, syncVars, nr, authVars>>

\* UPDATE integrations SET is_primary = 1 WHERE id = ?
SetPrimarySet(s) ==
  /\ sp[s].pc = "set"
  /\ integrations' =
       [i \in RowIds |->
          IF i = sp[s].id THEN [integrations[i] EXCEPT !.is_primary = TRUE]
          ELSE integrations[i]]
  /\ sp' = [sp EXCEPT ![s] = SpIdle]
  /\ UNCHANGED <<now, refreshProcs, cb, syncVars, nr, authVars>>

\* UPDATE integrations SET is_active = 0 WHERE id = ?
Deactivated(id) ==
  [i \in RowIds |->
     IF i = id THEN [integrations[i] EXCEPT !.is_active = FALSE]
     ELSE integrations[i]]

DeleteAccount(id) ==
  /\ id \in RowIds
  /\ integrations[id].is_active
  /\ integrations' = Deactivated(id)
  /\ UNCHANGED <<now, refreshProcs, cb, sp, syncVars, nr, authVars>>

(***************************************************************************)
(* JiraAuthService.refreshAccessToken.  A call is a frame rf[c] of its     *)
(* caller c: the row it read, then the answer of the token endpoint, then  *)
(* its return value or the error it throws.                                *)
(***************************************************************************)
RfIdle ==
  [st |-> "idle", id |-> 0, refresh_token |-> NULL, error |-> NULL,
   tokenData |-> NoTokenData]

\* what the call does with the row it read (the set rows is empty or one row)
refreshPrecheck_NoTokenCheck(rows) ==
  IF rows = {} THEN "NotFound" ELSE "Fetch"

refreshPrecheck(rows) ==
  IF rows = {} THEN "NotFound"
  ELSE IF (CHOOSE r \in rows : TRUE).refresh_token = NULL THEN "NoRefreshToken"
  ELSE "Fetch"

\* the frame after db.get and the two early throws
refreshLookup(id) ==
  LET rows == ActiveRow(id)
      todo == refreshPrecheck(rows)
  IN  IF todo = "Fetch"
      THEN [RfIdle EXCEPT !.st = "fetching", !.id = id,
                          !.refresh_token = (CHOOSE r \in rows : TRUE).refresh_token]
      ELSE [RfIdle EXCEPT !.st = "err", !.id = id, !.error = todo]

\* UPDATE integrations SET refresh_failures = refresh_failures + 1 WHERE id = ?
refreshFailureRow(row) == [row EXCEPT !.refresh_failures = @ + 1]

\* a variant of the UPDATE below that also sets is_active = 1
refreshSuccessRow_Reactivates(row, integration, tokenData, nowMs) ==
  [row EXCEPT
     !.access_token = tokenData.access_token,
     !.refresh_token = IF tokenData.refresh_token # NULL THEN tokenData.refresh_token
                       ELSE integration.refresh_token,
     !.expires_at = toISOString(nowMs + tokenData.expires_in * 1000),
     !.last_refresh_at = toISOString(nowMs),
     !.refresh_failures = 0,
     !.is_active = TRUE]

\* a variant of the UPDATE below that leaves refresh_failures as it is
refreshSuccessRow_KeepsFailures(row, integration, tokenData, nowMs) ==
  [row EXCEPT
     !.access_token = tokenData.access_token,
     !.refresh_token = IF tokenData.refresh_token # NULL THEN tokenData.refresh_token
                       ELSE integration.refresh_token,
     !.expires_at = toISOString(nowMs + tokenData.expires_in * 1000),
     !.last_refresh_at = toISOString(nowMs)]

\* UPDATE integrations SET access_token = ?, refresh_token = ?, expires_at = ?,
\*   last_refresh_at = ?, refresh_failures = 0 WHERE id = ?
refreshSuccessRow(row, integration, tokenData, nowMs) ==
  [row EXCEPT
     !.access_token = tokenData.access_token,
     !.refresh_token = IF tokenData.refresh_token # NULL THEN tokenData.refresh_token
                       ELSE integration.refresh_token,
     !.expires_at = toISOString(nowMs + tokenData.expires_in * 1000),
     !.last_refresh_at = toISOString(nowMs),
     !.refresh_failures = 0]

\* fetch rejects (network error): the call throws, nothing is written
RefreshNetworkError(c) ==
  /\ rf[c].st = "fetching"
  /\ rf' = [rf EXCEPT ![c].st = "err", ![c].error = "Network"]
  /\ UNCHANGED <<integrations, now, isRunning, cyc, hc, mr, cb, sp, syncVars, nr, authVars>>

\* 2xx whose body is no JSON, or carries no expires_in (toISOString throws):
\* the call throws before the UPDATE
RefreshBadBody(c) ==
  /\ rf[c].st = "fetching"
  /\ rf' = [rf EXCEPT ![c].st = "err", ![c].error = "BadBody"]
  /\ UNCHANGED <<integrations, now, isRunning, cyc, hc, mr, cb, sp, syncVars, nr, authVars>>

\* non-2xx: the failure count is incremented, 'Token refresh failed' is thrown
RefreshRejected(c) ==
  /\ rf[c].st = "fetching"
  /\ integrations' =
       [i \in RowIds |->
          IF i = rf[c].id THEN refreshFailureRow(integrations[i]) ELSE integrations[i]]
  /\ rf' = [rf EXCEPT ![c].st = "err", ![c].error = "RefreshFailed"]
  /\ UNCHANGED <<now, isRunning, cyc, hc, mr, cb, sp, syncVars, nr, authVars>>

\* 2xx with token data: the row is updated, the new tokens are returned
RefreshGranted(c) ==
  /\ rf[c].st = "fetching"
  /\ \E tokenData \in TokenData(now) :
       /\ integrations' =
            [i \in RowIds |->
               IF i = rf[c].id
               THEN refreshSuccessRow(integrations[i], rf[c], tokenData, now)
               ELSE integrations[i]]
       /\ rf' = [rf EXCEPT ![c].st = "ok", ![c].tokenData = tokenData]
  /\ UNCHANGED <<now, isRunning, cyc, hc, mr, cb, sp, syncVars, nr, authVars>>

RefreshReturned(c) == rf[c].st \in {"ok", "err"}

\* the call made the request to the token endpoint and did not succeed
AttemptFailed(frame) ==
  frame.st = "err" /\ frame.error \in {"RefreshFailed", "Network", "BadBody"}

(***************************************************************************)
(* TokenRefreshScheduler.refreshAllTokens.  The cron job invokes it every  *)
(* 30 minutes; v names an invocation: "cycle", and "cycle2" for the next   *)
(* firing of the job.  cyc[v].failed collects the ids whose refresh        *)
(* attempt failed in the invocation in progress.                           *)
(***************************************************************************)
LoopIdle == [pc |-> "idle", list |-> <<>>, idx |-> 0, failed |-> {}]

\* a variant of the guard below that lets every invocation in
alreadyRunning_Never(running) == FALSE

\* if (this.isRunning) return
alreadyRunning(running) == running

\* already running: 'skipping' is logged and the invocation returns at once
RefreshCycleSkipped(v) ==
  /\ cyc[v].pc = "idle"
  /\ alreadyRunning(isRunning)
  /\ cyc' = [cyc EXCEPT ![v] = [LoopIdle EXCEPT !.pc = "skipped"]]
  /\ UNCHANGED <<integrations, now, isRunning, hc, mr, rf, cb, sp, syncVars, nr, authVars>>

\* the promise of the skipped invocation resolves: the job's callback is over
RefreshCycleSkipReturns(v) ==
  /\ cyc[v].pc = "skipped"
  /\ cyc' = [cyc EXCEPT ![v] = LoopIdle]
  /\ UNCHANGED <<integrations, now, isRunning, hc, mr, rf, cb, sp, syncVars, nr, authVars>>

\* not already running: set the guard and read the active integrations
RefreshCycleStart(v) ==
  /\ cyc[v].pc = "idle"
  /\ ~alreadyRunning(isRunning)
  /\ isRunning' = TRUE
  /\ cyc' = [cyc EXCEPT ![v] =
               [pc |-> "loop", list |-> CycleSnapshot, idx |-> 1, failed |-> {}]]
  /\ UNCHANGED <<integrations, now, hc, mr, rf, cb, sp, syncVars, nr, authVars>>

\* the token of the next integration is still valid
RefreshCycleValid(v) ==
  /\ cyc[v].pc = "loop"
  /\ cyc[v].idx <= Len(cyc[v].list)
  /\ ~needsRefresh(cyc[v].list[cyc[v].idx], now)
  /\ cyc' = [cyc EXCEPT ![v].idx = @ + 1]
  /\ UNCHANGED <<integrations, now, isRunning, hc, mr, rf, cb, sp, syncVars, nr, authVars>>

\* the token of the next integration needs a refresh: refreshAccessToken is called
RefreshCycleCall(v) ==
  /\ cyc[v].pc = "loop"
  /\ cyc[v].idx <= Len(cyc[v].list)
  /\ needsRefresh(cyc[v].list[cyc[v].idx], now)
  /\ rf' = [rf EXCEPT ![v] = refreshLookup(cyc[v].list[cyc[v].idx].id)]
  /\ cyc' = [cyc EXCEPT ![v].pc = "await"]
  /\ UNCHANGED <<integrations, now, isRunning, hc, mr, cb, sp, syncVars, nr, authVars>>

\* the refresh returned
RefreshCycleRefreshed(v) ==
  /\ cyc[v].pc = "await"
  /\ rf[v].st = "ok"
  /\ cyc' = [cyc EXCEPT ![v].pc = "loop", ![v].idx = @ + 1]
  /\ rf' = [rf EXCEPT ![v] = RfIdle]
  /\ UNCHANGED <<integrations, now, isRunning, hc, mr, cb, sp, syncVars, nr, authVars>>

\* the catch block: deactivate when the row read at the start of the cycle
\* already counted three failures
cycleCatchRows(integration) ==
  IF integration.refresh_failures >= 3 THEN Deactivated(integration.id) ELSE integrations

\* a variant of the catch block below that leaves the loop
RefreshCycleCatch_LeavesLoop(v) ==
  /\ cyc[v].pc = "await"
  /\ rf[v].st = "err"
  /\ integrations' = cycleCatchRows(cyc[v].list[cyc[v].idx])
  /\ cyc' = [cyc EXCEPT ![v].pc = "loop", ![v].idx = Len(cyc[v].list) + 1,
                        ![v].failed = IF AttemptFailed(rf[v])
                                      THEN @ \cup {rf[v].id} ELSE @]
  /\ rf' = [rf EXCEPT ![v] = RfIdle]
  /\ UNCHANGED <<now, isRunning, hc, mr, cb, sp, syncVars, nr, authVars>>

RefreshCycleCatch(v) ==
  /\ cyc[v].pc = "await"
  /\ rf[v].st = "err"
  /\ integrations' = cycleCatchRows(cyc[v].list[cyc[v].idx])
  /\ cyc' = [cyc EXCEPT ![v].pc = "loop", ![v].idx = @ + 1,
                        ![v].failed = IF AttemptFailed(rf[v])
                                      THEN @ \cup {rf[v].id} ELSE @]
  /\ rf' = [rf EXCEPT ![v] = RfIdle]
  /\ UNCHANGED <<now, isRunning, hc, mr, cb, sp, syncVars, nr, authVars>>

\* the loop is over: finally clears the guard
RefreshCycleEnd(v) ==
  /\ cyc[v].pc = "loop"
  /\ cyc[v].idx > Len(cyc[v].list)
  /\ isRunning' = FALSE
  /\ cyc' = [cyc EXCEPT ![v] = LoopIdle]
  /\ UNCHANGED <<integrations, now, hc, mr, rf, cb, sp, syncVars, nr, authVars>>

\* getDatabase or the SELECT of the active integrations throws: the guard is
\* set, the outer catch logs the error
RefreshCycleReadThrows(v) ==
  /\ cyc[v].pc = "idle"
  /\ ~alreadyRunning(isRunning)
  /\ isRunning' = TRUE
  /\ cyc' = [cyc EXCEPT ![v] = [LoopIdle EXCEPT !.pc = "thrown"]]
  /\ UNCHANGED <<integrations, now, hc, mr, rf, cb, sp, syncVars, nr, authVars>>

\* the UPDATE of the catch block throws: the error leaves the loop and the
\* outer catch logs it
RefreshCycleDeactivateThrows(v) ==
  /\ cyc[v].pc = "await"
  /\ rf[v].st = "err"
  /\ cyc[v].list[cyc[v].idx].refresh_failures >= 3
  /\ cyc' = [cyc EXCEPT ![v].pc = "thrown",
                        ![v].failed = IF AttemptFailed(rf[v])
                                      THEN @ \cup {rf[v].id} ELSE @]
  /\ rf' = [rf EXCEPT ![v] = RfIdle]
  /\ UNCHANGED <<integrations, now, isRunning, hc, mr, cb, sp, syncVars, nr, authVars>>

\* a variant of the finally block below, after an error, that leaves the
\* guard set
RefreshCycleFinally_KeepsGuard(v) ==
  /\ cyc[v].pc = "thrown"
  /\ cyc' = [cyc EXCEPT ![v] = LoopIdle]
  /\ UNCHANGED <<integrations, now, isRunning, hc, mr, rf, cb, sp, syncVars, nr, authVars>>

\* after the outer catch: finally clears the guard
RefreshCycleFinally(v) ==
  /\ cyc[v].pc = "thrown"
  /\ isRunning' = FALSE
  /\ cyc' = [cyc EXCEPT ![v] = LoopIdle]
  /\ UNCHANGED <<integrations, now, hc, mr, rf, cb, sp, syncVars, nr, authVars>>

(***************************************************************************)
(* TokenRefreshScheduler.healthCheck                                       *)
(***************************************************************************)
HealthCheckStart ==
  /\ hc.pc = "idle"
  /\ hc' = [pc |-> "loop", list |-> HealthSnapshot, idx |-> 1, failed |-> {}]
  /\ UNCHANGED <<integrations, now, isRunning, cyc, mr, rf, cb, sp, syncVars, nr, authVars>>

\* getAccessibleResources answers 2xx (the token has not expired), or fails
\* with another status than 401: next integration
HealthCheckNext ==
  /\ hc.pc = "loop"
  /\ hc.idx <= Len(hc.list)
  /\ hc' = [hc EXCEPT !.idx = @ + 1]
  /\ UNCHANGED <<integrations, now, isRunning, cyc, mr, rf, cb, sp, syncVars, nr, authVars>>

\* getAccessibleResources fails with 401: refreshAccessToken is called
HealthCheckCall ==
  /\ hc.pc = "loop"
  /\ hc.idx <= Len(hc.list)
  /\ rf' = [rf EXCEPT !["health"] = refreshLookup(hc.list[hc.idx])]
  /\ hc' = [hc EXCEPT !.pc = "await"]
  /\ UNCHANGED <<integrations, now, isRunning, cyc, mr, cb, sp, syncVars, nr, authVars>>

\* the refresh returned or threw; the error is only logged
HealthCheckRefreshed ==
  /\ hc.pc = "await"
  /\ RefreshReturned("health")
  /\ hc' = [hc EXCEPT !.pc = "loop", !.idx = @ + 1,
                      !.failed = IF AttemptFailed(rf["health"])
                                 THEN @ \cup {rf["health"].id} ELSE @]
  /\ rf' = [rf EXCEPT !["health"] = RfIdle]
  /\ UNCHANGED <<integrations, now, isRunning, cyc, mr, cb, sp, syncVars, nr, authVars>>

HealthCheckEnd ==
  /\ hc.pc = "loop"
  /\ hc.idx > Len(hc.list)
  /\ hc' = LoopIdle
  /\ UNCHANGED <<integrations, now, isRunning, cyc, mr, rf, cb, sp, syncVars, nr, authVars>>

(***************************************************************************)
(* POST /api/integrations/:id/refresh-token                                *)
(***************************************************************************)
MrIdle == [pc |-> "idle", id |-> 0]

\* the response to a request whose refreshAccessToken call ended as frame:
\* 200, or 500 with requiresReauth for a missing refresh token
manualRefreshResponse(frame) ==
  [status |-> IF frame.st = "ok" THEN 200 ELSE 500,
   requiresReauth |-> (frame.st = "err" /\ frame.error = "NoRefreshToken")]

\* no active row with this id: 404
ManualRefreshNotFound(id) ==
  /\ mr.pc = "idle"
  /\ ActiveRow(id) = {}
  /\ mr' = MrIdle
  /\ UNCHANGED <<integrations, now, isRunning, cyc, hc, rf, cb, sp, syncVars, nr, authVars>>

\* an active row with this id: the handler goes on
ManualRefreshFound(id) ==
  /\ mr.pc = "idle"
  /\ ActiveRow(id) # {}
  /\ mr' = [pc |-> "found", id |-> id]
  /\ UNCHANGED <<integrations, now, isRunning, cyc, hc, rf, cb, sp, syncVars, nr, authVars>>

\* refreshAccessToken is called
ManualRefreshCall ==
  /\ mr.pc = "found"
  /\ rf' = [rf EXCEPT !["manual"] = refreshLookup(mr.id)]
  /\ mr' = [mr EXCEPT !.pc = "await"]
  /\ UNCHANGED <<integrations, now, isRunning, cyc, hc, cb, sp, syncVars, nr, authVars>>

\* the refresh returned or threw: the response is sent
ManualRefreshRespond ==
  /\ mr.pc = "await"
  /\ RefreshReturned("manual")
  /\ mr' = MrIdle
  /\ rf' = [rf EXCEPT !["manual"] = RfIdle]
  /\ UNCHANGED <<integrations, now, isRunning, cyc, hc, cb, sp, syncVars, nr, authVars>>

(***************************************************************************)
(* The entity tables and the upstream Jira site.  A row of an entity table *)
(* is its account (integration_id), its natural key column (project_key,   *)
(* issue_type_id, ..., issue_key, comment_id, ...), raw_data and           *)
(* updated_at.  Upstream, every collection holds one record, and it does   *)
(* not change.                                                             *)
(***************************************************************************)
\* the steps of ComprehensiveJiraSync.syncAllData, in its order; store has
\* one table per step
\* a variant of the order below in which the issue step comes tenth, before
\* components and versions
Steps_IssuesFirst ==
  <<"projects", "issueTypes", "priorities", "statuses", "resolutions", "users",
    "groups", "issueFields", "labels", "issues", "components", "versions",
    "workflows", "dashboards", "filters", "permissions", "comments", "worklogs",
    "attachments", "links">>

\* the order of the awaited calls of syncAllData
Steps ==
  <<"projects", "issueTypes", "priorities", "statuses", "resolutions", "users",
    "groups", "issueFields", "labels", "components", "versions", "workflows",
    "dashboards", "filters", "permissions", "issues", "comments", "worklogs",
    "attachments", "links">>

NumSteps == Len(Steps)
EntityTypes == {Steps[i] : i \in 1..NumSteps}

\* where the step catches the error of a fetch: nowhere ("none": the error
\* leaves the step), around the whole step ("step"), or around the fetch
\* for one stored project or issue ("parent")
Isolation(T) ==
  IF T \in {"projects", "issueTypes", "priorities", "statuses", "resolutions",
            "issueFields"} THEN "none"
  ELSE IF T \in {"users", "groups", "labels", "workflows", "dashboards", "filters",
                 "permissions"} THEN "step"
  ELSE "parent"

\* the table whose stored rows a "parent" step iterates over
ParentOf(T) == IF T \in {"components", "versions", "issues"} THEN "projects" ELSE "issues"

\* a variant of the schema below in which every table declares
\* UNIQUE(integration_id, natural key)
HasNaturalKeyConstraint_Declared(T) == TRUE

\* CREATE TABLE of initDatabase: no table declares UNIQUE(integration_id,
\* natural key); the only key of a table is its AUTOINCREMENT id
HasNaturalKeyConstraint(T) == FALSE

\* the values of Math.random() in a generated workflow id
RandomValues == {"r1", "r2"}

\* GET of the collection of T (for a "parent" step: of the project or issue
\* parent).  An issue names its parent issue (fields.parent.key): issue 0 of
\* the project, which no search returns.
UpstreamRecords(T, parent) ==
  IF T \in gone THEN <<>>
  ELSE IF T = "issues"
    THEN [i \in 1..projectSize |->
            [key |-> <<T, parent, i>>, raw_data |-> "v1",
             parent_key |-> <<T, parent, 0>>]]
  ELSE IF T = "workflows" THEN <<[key |-> <<>>, raw_data |-> "v1"]>>
  ELSE IF Isolation(T) = "parent" THEN <<[key |-> <<T, parent>>, raw_data |-> "v1"]>>
  ELSE <<[key |-> <<T, 1>>, raw_data |-> "v1"]>>

\* the key column the step writes for a record: its id or key; syncWorkflows
\* generates one for a workflow without id
KeyColumn(T, record, nowMs, rnd) ==
  IF T = "workflows" /\ record.key = <<>> THEN <<"workflow", nowMs, rnd>>
  ELSE record.key

\* a variant of the statement below for a table whose UNIQUE constraint is
\* on the natural key alone: the row replaces the rows of any account that
\* have its key
InsertOrReplace_KeyOnly(T, rows, row) ==
  Append(SelectSeq(rows, LAMBDA r : r.key # row.key), row)

\* INSERT OR REPLACE INTO <table of T>: the row replaces the rows it conflicts
\* with on a UNIQUE constraint, and is added
InsertOrReplace(T, rows, row) ==
  IF HasNaturalKeyConstraint(T)
  THEN Append(SelectSeq(rows, LAMBDA r : ~(r.integration_id = row.integration_id
                                           /\ r.key = row.key)), row)
  ELSE Append(rows, row)

\* the number of column names the INSERT OR REPLACE statement of the step of T
\* lists
InsertColumns(T) ==
  CASE T = "projects" -> 14
    [] T \in {"issueTypes", "priorities", "statuses", "dashboards", "permissions"} -> 8
    [] T \in {"resolutions", "workflows"} -> 6
    [] T \in {"users", "versions", "filters", "comments"} -> 10
    [] T = "groups" -> 5
    [] T \in {"issueFields", "components", "links"} -> 9
    [] T = "labels" -> 4
    [] T = "issues" -> 37
    [] T = "worklogs" -> 13
    [] T = "attachments" -> 12

\* the number of values its VALUES list gives (a ? or, for the count of a
\* label, the literal 1)
InsertValues(T) == IF T = "issues" THEN 38 ELSE InsertColumns(T)

\* SQLite prepares the statement only when it gives one value per column;
\* otherwise db.run rejects ("38 values for 37 columns") and no row is written
StatementAccepted(T) == InsertValues(T) = InsertColumns(T)

\* for (const record of records) await db.run(INSERT OR REPLACE ...)
RECURSIVE InsertRecords(_, _, _, _, _, _, _)
InsertRecords(T, rows, records, i, integrationId, nowMs, rnd) ==
  IF i > Len(records) THEN rows
  ELSE InsertRecords(T,
         InsertOrReplace(T, rows,
           [integration_id |-> integrationId,
            key |-> KeyColumn(T, records[i], nowMs, rnd),
            raw_data |-> records[i].raw_data,
            updated_at |-> toISOString(nowMs)]),
         records, i + 1, integrationId, nowMs, rnd)

\* SELECT project_key FROM jira_projects WHERE integration_id = ? (or issue_key
\* FROM jira_issues): one entry per stored row
StoredKeys(T, integrationId) ==
  LET rows == SelectSeq(store[T], LAMBDA r : r.integration_id = integrationId)
  IN  [i \in 1..Len(rows) |-> rows[i].key]

\* the loop of a "parent" step over the stored parents; the fetch for the
\* parents whose index is in failing throws and is caught, and so is the
\* rejection of the first insert for a parent with records
RECURSIVE InsertForParents(_, _, _, _, _, _, _)
InsertForParents(T, rows, parents, i, failing, integrationId, nowMs) ==
  IF i > Len(parents) THEN rows
  ELSE InsertForParents(T,
         IF i \in failing \/ ~StatementAccepted(T) THEN rows
         ELSE InsertRecords(T, rows, UpstreamRecords(T, parents[i]), 1,
                            integrationId, nowMs, "r1"),
         parents, i + 1, failing, integrationId, nowMs)

\* a variant of the step below that first deletes the rows the table holds
\* for the account, as a mirroring sync would
StepRows_Mirror(T, integrationId, failing, nowMs, rnd) ==
  LET kept == SelectSeq(store[T], LAMBDA r : r.integration_id # integrationId)
  IN  IF Isolation(T) = "parent"
      THEN InsertForParents(T, kept, StoredKeys(ParentOf(T), integrationId), 1,
                            failing, integrationId, nowMs)
      ELSE InsertRecords(T, kept, UpstreamRecords(T, <<>>), 1, integrationId, nowMs, rnd)

\* the table of T after the step of T for the account, all fetches answered
\* except those of the parents in failing
StepRows(T, integrationId, failing, nowMs, rnd) ==
  IF Isolation(T) = "parent"
  THEN InsertForParents(T, store[T], StoredKeys(ParentOf(T), integrationId), 1,
                        failing, integrationId, nowMs)
  ELSE InsertRecords(T, store[T], UpstreamRecords(T, <<>>), 1, integrationId, nowMs, rnd)

\* the Jira API accepts an access token until the end of its lifetime
TokenValid(token, nowMs) == token # <<>> /\ nowMs < token[2] + token[3] * 1000

(***************************************************************************)
(* Sync runs.  sy[k] is the run in progress of entry point k: the manual   *)
(* sync (POST /api/integrations/:id/sync, TokenRefreshScheduler.manualSync)*)
(* and the comprehensive sync endpoint run ComprehensiveJiraSync           *)
(* .syncAllData; the scheduled sync is TokenRefreshScheduler.syncAllData.  *)
(* The fetches and inserts of one entity-type step are one step here.      *)
(***************************************************************************)
SyncKinds == {"scheduled", "manual", "comprehensive"}

\* startAt, totalIssues and requests belong to the syncIssuesToDatabase call
\* of the scheduled sync: its two counters and the bodies of the requests
\* getIssues sent
SyncIdle ==
  [pc |-> "idle", id |-> 0, step |-> 0, token |-> <<>>, list |-> <<>>, idx |-> 0,
   startAt |-> 0, totalIssues |-> 0, requests |-> <<>>]

NoStore == [T \in EntityTypes |-> <<>>]

\* a variant of the test below in which a sync does not start while a run
\* of another entry point is in progress
syncInProgress_Guarded(k) == \E other \in SyncKinds \ {k} : sy[other].pc # "idle"

\* what keeps entry point k from starting a sync run while another run is
\* in progress: syncAllData, manualSync and the sync endpoints test no flag
\* (isRunning guards refreshAllTokens only)
syncInProgress(k) == FALSE

\* manualSync: no active row with this id: it returns success false
ManualSyncNotFound(id) ==
  /\ sy["manual"].pc = "idle"
  /\ ActiveRow(id) = {}
  /\ sy' = [sy EXCEPT !["manual"] = [SyncIdle EXCEPT !.pc = "failed", !.id = id]]
  /\ started' = started + 1
  /\ UNCHANGED <<integrations, now, refreshProcs, cb, sp, store, faults, gone, projectSize, nr, authVars>>

\* manualSync: the active row is read; getAccessibleResources is called with
\* its access token
ManualSyncStart(id) ==
  /\ sy["manual"].pc = "idle"
  /\ ~syncInProgress("manual")
  /\ ActiveRow(id) # {}
  /\ sy' = [sy EXCEPT !["manual"] =
              [SyncIdle EXCEPT !.pc = "resources", !.id = id,
                               !.token = integrations[id].access_token]]
  /\ started' = started + 1
  /\ UNCHANGED <<integrations, now, refreshProcs, cb, sp, store, faults, gone, projectSize, nr, authVars>>

\* comprehensive-sync: no row with this id: 404
ComprehensiveSyncNotFound(id) ==
  /\ sy["comprehensive"].pc = "idle"
  /\ id \notin RowIds
  /\ sy' = [sy EXCEPT !["comprehensive"] = [SyncIdle EXCEPT !.pc = "failed", !.id = id]]
  /\ started' = started + 1
  /\ UNCHANGED <<integrations, now, refreshProcs, cb, sp, store, faults, gone, projectSize, nr, authVars>>

\* comprehensive-sync: the row is read (active or not)
ComprehensiveSyncStart(id) ==
  /\ sy["comprehensive"].pc = "idle"
  /\ ~syncInProgress("comprehensive")
  /\ id \in RowIds
  /\ sy' = [sy EXCEPT !["comprehensive"] =
              [SyncIdle EXCEPT !.pc = "resources", !.id = id,
                               !.token = integrations[id].access_token]]
  /\ started' = started + 1
  /\ UNCHANGED <<integrations, now, refreshProcs, cb, sp, store, faults, gone, projectSize, nr, authVars>>

\* getAccessibleResources answers with a site: syncAllData starts
SyncResourcesOk(k) ==
  /\ sy[k].pc = "resources"
  /\ TokenValid(sy[k].token, now)
  /\ sy' = [sy EXCEPT ![k].pc = "steps", ![k].step = 1]
  /\ UNCHANGED <<integrations, now, refreshProcs, cb, sp, store, started, faults,
                 gone, projectSize, nr, authVars>>

\* getAccessibleResources answers 401 to an expired token: the run fails
SyncResourcesUnauthorized(k) ==
  /\ sy[k].pc = "resources"
  /\ ~TokenValid(sy[k].token, now)
  /\ sy' = [sy EXCEPT ![k].pc = "failed"]
  /\ UNCHANGED <<integrations, now, refreshProcs, cb, sp, store, started, faults,
                 gone, projectSize, nr, authVars>>

\* getAccessibleResources fails otherwise, or lists no site: the run fails
SyncResourcesFailed(k) ==
  /\ sy[k].pc = "resources"
  /\ sy' = [sy EXCEPT ![k].pc = "failed"]
  /\ faults' = faults + 1
  /\ UNCHANGED <<integrations, now, refreshProcs, cb, sp, store, started, gone, projectSize, nr, authVars>>

\* the step of the next entity type: every fetch answers
SyncStepDone(k) ==
  /\ sy[k].pc = "steps"
  /\ sy[k].step <= NumSteps
  /\ LET T == Steps[sy[k].step]
     IN  \E rnd \in RandomValues :
           store' = [store EXCEPT ![T] = StepRows(T, sy[k].id, {}, now, rnd)]
  /\ sy' = [sy EXCEPT ![k].step = @ + 1]
  /\ UNCHANGED <<integrations, now, refreshProcs, cb, sp, started, faults, gone, projectSize, nr, authVars>>

\* the step of the next entity type: a fetch throws (non-2xx, such as 403,
\* or a network error).  A "parent" step goes on with its other parents, a
\* "step" step ends, and from a "none" step the error leaves syncAllData.
SyncStepFetchFails(k) ==
  /\ sy[k].pc = "steps"
  /\ sy[k].step <= NumSteps
  /\ LET T == Steps[sy[k].step]
     IN  CASE Isolation(T) = "parent" ->
                \E p \in 1..Len(StoredKeys(ParentOf(T), sy[k].id)) :
                  /\ store' = [store EXCEPT ![T] = StepRows(T, sy[k].id, {p}, now, "r1")]
                  /\ sy' = [sy EXCEPT ![k].step = @ + 1]
            [] Isolation(T) = "step" ->
                /\ store' = store
                /\ sy' = [sy EXCEPT ![k].step = @ + 1]
            [] Isolation(T) = "none" ->
                /\ store' = store
                /\ sy' = [sy EXCEPT ![k].pc = "failed"]
  /\ faults' = faults + 1
  /\ UNCHANGED <<integrations, now, refreshProcs, cb, sp, started, gone, projectSize, nr, authVars>>

\* syncAllData returned: success is answered
SyncCompleted(k) ==
  /\ sy[k].pc = "steps"
  /\ sy[k].step = NumSteps + 1
  /\ sy' = [sy EXCEPT ![k] = SyncIdle]
  /\ UNCHANGED <<integrations, now, refreshProcs, cb, sp, store, started, faults,
                 gone, projectSize, nr, authVars>>

\* the error is answered (manualSync: success false; the endpoints: 404, 500)
SyncFailed(k) ==
  /\ sy[k].pc = "failed"
  /\ sy' = [sy EXCEPT ![k] = SyncIdle]
  /\ UNCHANGED <<integrations, now, refreshProcs, cb, sp, store, started, faults,
                 gone, projectSize, nr, authVars>>

(***************************************************************************)
(* TokenRefreshScheduler.syncAllData, the scheduled sync: for every active *)
(* integration the projects, and for every project its issues through      *)
(* JiraApiService.syncIssuesToDatabase.                                    *)
(***************************************************************************)
ScheduledSyncStart ==
  /\ sy["scheduled"].pc = "idle"
  /\ ~syncInProgress("scheduled")
  /\ sy' = [sy EXCEPT !["scheduled"] =
              [SyncIdle EXCEPT !.pc = "loop", !.list = HealthSnapshot, !.idx = 1]]
  /\ started' = started + 1
  /\ UNCHANGED <<integrations, now, refreshProcs, cb, sp, store, faults, gone, projectSize, nr, authVars>>

\* next integration: getAccessibleResources answers with a site
ScheduledSyncResourcesOk ==
  LET run == sy["scheduled"]
  IN  /\ run.pc = "loop"
      /\ run.idx <= Len(run.list)
      /\ TokenValid(integrations[run.list[run.idx]].access_token, now)
      /\ sy' = [sy EXCEPT !["scheduled"].pc = "projects",
                          !["scheduled"].id = run.list[run.idx],
                          !["scheduled"].token =
                             integrations[run.list[run.idx]].access_token]
      /\ UNCHANGED <<integrations, now, refreshProcs, cb, sp, store, started, faults,
                     gone, projectSize, nr, authVars>>

\* next integration: getAccessibleResources answers 401 to an expired token;
\* the error is logged
ScheduledSyncUnauthorized ==
  LET run == sy["scheduled"]
  IN  /\ run.pc = "loop"
      /\ run.idx <= Len(run.list)
      /\ ~TokenValid(integrations[run.list[run.idx]].access_token, now)
      /\ sy' = [sy EXCEPT !["scheduled"].idx = @ + 1]
      /\ UNCHANGED <<integrations, now, refreshProcs, cb, sp, store, started, faults,
                     gone, projectSize, nr, authVars>>

\* getProjects answers: for a project INSERT OR REPLACE INTO jira_projects
\* (integration_id, project_key, project_name, cloud_id, is_active), then
\* its issues are read; without projects the integration is done
ScheduledSyncProjects ==
  LET run == sy["scheduled"]
      records == UpstreamRecords("projects", <<>>)
  IN  /\ run.pc = "projects"
      /\ IF records = <<>>
         THEN /\ store' = store
              /\ sy' = [sy EXCEPT !["scheduled"].pc = "loop", !["scheduled"].idx = @ + 1]
         ELSE /\ store' = [store EXCEPT !["projects"] =
                             InsertOrReplace("projects", @,
                               [integration_id |-> run.id, key |-> records[1].key,
                                raw_data |-> NULL, updated_at |-> <<>>])]
              /\ sy' = [sy EXCEPT !["scheduled"].pc = "issues",
                                  !["scheduled"].startAt = 0,
                                  !["scheduled"].totalIssues = 0,
                                  !["scheduled"].requests = <<>>]
      /\ UNCHANGED <<integrations, now, refreshProcs, cb, sp, started, faults, gone, projectSize, nr, authVars>>

\* const maxResults = 100 of syncIssuesToDatabase
maxResults == 100

\* the body getIssues posts to /rest/api/3/search/jql: the JQL of the
\* project and maxResults; its startAt parameter is not part of the body
getIssues(projectKey, startAtParam, maxResultsParam) ==
  [jql |-> projectKey, maxResults |-> maxResultsParam]

\* the offset a search request asks for: that of its body, 0 without one
RequestedOffset(body) == IF "startAt" \in DOMAIN body THEN body.startAt ELSE 0

\* the page the search answers: at most maxResults issues from the offset
SearchPage(body, records) ==
  LET first == RequestedOffset(body) + 1
      last == IF Len(records) < RequestedOffset(body) + body.maxResults
              THEN Len(records) ELSE RequestedOffset(body) + body.maxResults
  IN  SubSeq(records, first, last)

\* for (const issue of issues) await db.run(INSERT INTO jira_issues ... ON
\* CONFLICT(integration_id, issue_key) DO UPDATE SET ...), the issues of a page
\* having different keys: the stored row of a key gets the columns of the
\* statement (raw_data is not one of them); an issue without a stored row is
\* added
InsertIssues(rows, issues, integrationId, nowMs) ==
  LET storedKeys ==
        {rows[i].key : i \in {j \in 1..Len(rows) : rows[j].integration_id = integrationId}}
      pageKeys == {issues[j].key : j \in 1..Len(issues)}
      fresh == SelectSeq(issues, LAMBDA r : r.key \notin storedKeys)
  IN  [i \in 1..Len(rows) |->
         IF rows[i].integration_id = integrationId /\ rows[i].key \in pageKeys
         THEN [rows[i] EXCEPT !.updated_at = toISOString(nowMs)]
         ELSE rows[i]]
      \o [i \in 1..Len(fresh) |->
            [integration_id |-> integrationId, key |-> fresh[i].key,
             raw_data |-> NULL, updated_at |-> toISOString(nowMs)]]

\* one turn of the loop of syncIssuesToDatabase: getIssues answers with a
\* page.  An empty page ends the loop.  Otherwise the issues are inserted;
\* without the UNIQUE constraint its ON CONFLICT clause names, SQLite rejects
\* the statement: the error leaves syncIssuesToDatabase, is logged and ends
\* the sync of this integration.  After the inserts the counters advance and
\* a page shorter than maxResults ends the loop.
ScheduledSyncIssues ==
  LET run == sy["scheduled"]
      projects == UpstreamRecords("projects", <<>>)
      body == getIssues(projects[1].key, run.startAt, maxResults)
      asked == IF projects = <<>> THEN run.requests ELSE Append(run.requests, body)
  IN  /\ run.pc = "issues"
      /\ Len(run.requests) < MaxFetches
      /\ \E issues \in {IF projects = <<>> THEN <<>>
                          ELSE SearchPage(body, UpstreamRecords("issues", projects[1].key))} :
           IF issues = <<>> \/ ~HasNaturalKeyConstraint("issues")
           THEN /\ store' = store
                /\ sy' = [sy EXCEPT !["scheduled"].pc = "loop",
                                    !["scheduled"].idx = @ + 1,
                                    !["scheduled"].requests = asked]
           ELSE /\ store' = [store EXCEPT !["issues"] =
                               InsertIssues(@, issues, run.id, now)]
                /\ sy' = [sy EXCEPT
                            !["scheduled"].pc =
                               IF Len(issues) < maxResults THEN "loop" ELSE "issues",
                            !["scheduled"].idx =
                               IF Len(issues) < maxResults THEN @ + 1 ELSE @,
                            !["scheduled"].totalIssues = @ + Len(issues),
                            !["scheduled"].startAt = @ + maxResults,
                            !["scheduled"].requests = asked]
      /\ UNCHANGED <<integrations, now, refreshProcs, cb, sp, started, faults, gone,
                     projectSize, nr, authVars>>

\* a fetch of the sync of this integration fails: the error is logged
ScheduledSyncFetchFails ==
  /\ sy["scheduled"].pc \in {"projects", "issues"}
  /\ sy' = [sy EXCEPT !["scheduled"].pc = "loop", !["scheduled"].idx = @ + 1]
  /\ faults' = faults + 1
  /\ UNCHANGED <<integrations, now, refreshProcs, cb, sp, store, started, gone, projectSize, nr, authVars>>

ScheduledSyncEnd ==
  /\ sy["scheduled"].pc = "loop"
  /\ sy["scheduled"].idx > Len(sy["scheduled"].list)
  /\ sy' = [sy EXCEPT !["scheduled"] = SyncIdle]
  /\ UNCHANGED <<integrations, now, refreshProcs, cb, sp, store, started, faults,
                 gone, projectSize, nr, authVars>>

(***************************************************************************)
(* The Jira site: the entities of a type are deleted there; the requests   *)
(* for them answer with empty lists from then on.                          *)
(***************************************************************************)
UpstreamEmptied(T) ==
  /\ T \notin gone
  /\ gone' = gone \cup {T}
  /\ UNCHANGED <<integrations, now, refreshProcs, cb, sp, store, sy, started, faults,
                 projectSize, nr, authVars>>

(***************************************************************************)
(* Time passes.                                                            *)
(***************************************************************************)
Tick ==
  /\ now' = now + 1000
  /\ UNCHANGED <<integrations, refreshProcs, cb, sp, syncVars, nr, authVars>>

(***************************************************************************)
(* The initial state: an empty database, no request in progress.           *)
(***************************************************************************)
Init ==
  /\ integrations = <<>>
  /\ now = 0
  /\ isRunning = FALSE
  /\ cyc = [v \in CycleInvocations |-> LoopIdle]
  /\ hc = LoopIdle
  /\ mr = MrIdle
  /\ rf = [c \in RefreshCallers |-> RfIdle]
  /\ cb = [s \in CallbackSlots |-> CbIdle]
  /\ sp = [s \in SetPrimarySlots |-> SpIdle]
  /\ store = NoStore
  /\ sy = [k \in SyncKinds |-> SyncIdle]
  /\ started = 0
  /\ faults = 0
  /\ gone = {}
  /\ projectSize = 1
  /\ nr = <<>>
  /\ tempAccountInfo = <<>>
  /\ issuedStates = {}

(***************************************************************************)
(* The token lifecycle: authorization, the refresh cycle, the health       *)
(* check and the manual refresh endpoint, with time passing.  The guards   *)
(* written here bound the environment: how many accounts are authorized,   *)
(* how many operations are in progress at once, how often the token        *)
(* endpoint rejects, how much time passes.  This specification follows the *)
(* account of a blank installation: one authorization, account 1.          *)
(***************************************************************************)
Busy ==
  Cardinality({v \in CycleInvocations : cyc[v].pc # "idle"}) +
  (IF hc.pc # "idle" THEN 1 ELSE 0) +
  (IF mr.pc # "idle" THEN 1 ELSE 0)

Authorize ==
  \/ /\ integrations = <<>>
     /\ CallbackArrive("cb1")
  \/ CallbackExchangeFailed("cb1")
  \/ CallbackExchanged("cb1")
  \/ CallbackInsert("cb1")

TokenEndpointAnswers ==
  \E c \in RefreshCallers :
    \/ RefreshNetworkError(c)
    \/ RefreshBadBody(c)
    \/ /\ rf[c].st = "fetching"
       /\ integrations[rf[c].id].refresh_failures < MaxFailures
       /\ RefreshRejected(c)
    \/ RefreshGranted(c)

RefreshCycleContinues ==
  \/ RefreshCycleValid("cycle")
  \/ RefreshCycleCall("cycle")
  \/ RefreshCycleRefreshed("cycle")
  \/ RefreshCycleCatch("cycle")
  \/ RefreshCycleEnd("cycle")

RefreshCycle ==
  \/ Busy < MaxConcurrent /\ RefreshCycleStart("cycle")
  \/ RefreshCycleContinues

HealthCheckContinues ==
  \/ HealthCheckNext
  \/ HealthCheckCall
  \/ HealthCheckRefreshed
  \/ HealthCheckEnd

HealthCheck ==
  \/ Busy < MaxConcurrent /\ HealthCheckStart
  \/ HealthCheckContinues

ManualRefresh ==
  \/ ManualRefreshNotFound(1)
  \/ Busy < MaxConcurrent /\ ManualRefreshFound(1)
  \/ ManualRefreshCall
  \/ ManualRefreshRespond

TimePasses == now + 1000 <= MaxNowSec * 1000 /\ Tick

Next ==
  \/ Authorize
  \/ TokenEndpointAnswers
  \/ RefreshCycle
  \/ HealthCheck
  \/ ManualRefresh
  \/ TimePasses

Spec == Init /\ [][Next]_vars

(***************************************************************************)
(* The token lifecycle with overlapping operations: the refresh cycle, the *)
(* health check and the manual refresh endpoint start whenever they are    *)
(* idle, whatever the others do.  All of it happens at one instant.        *)
(***************************************************************************)
NextOverlap ==
  \/ Authorize
  \/ TokenEndpointAnswers
  \/ RefreshCycleStart("cycle")
  \/ RefreshCycleContinues
  \/ HealthCheckStart
  \/ HealthCheckContinues
  \/ ManualRefreshNotFound(1)
  \/ ManualRefreshFound(1)
  \/ ManualRefreshCall
  \/ ManualRefreshRespond

SpecOverlap == Init /\ [][NextOverlap]_vars

(***************************************************************************)
(* The account flags: authorization callbacks, set-primary requests,       *)
(* account deletions and manual refreshes of up to MaxAccounts accounts,   *)
(* in any interleaving, at one instant.                                    *)
(***************************************************************************)
AuthorizeAny ==
  \E s \in CallbackSlots :
    \/ /\ Len(integrations) + InFlightCallbacks < MaxAccounts
       /\ CallbackArrive(s)
    \/ CallbackExchangeFailed(s)
    \/ CallbackExchanged(s)
    \/ CallbackInsert(s)

SetPrimary ==
  \/ \E s \in SetPrimarySlots, id \in AccountIds : SetPrimaryClear(s, id)
  \/ \E s \in SetPrimarySlots : SetPrimarySet(s)

ManualRefreshAny ==
  \/ \E id \in AccountIds : ManualRefreshNotFound(id)
  \/ \E id \in AccountIds : ManualRefreshFound(id)
  \/ ManualRefreshCall
  \/ /\ rf["manual"].st = "fetching"
     /\ integrations[rf["manual"].id].refresh_failures < MaxFailures
     /\ RefreshRejected("manual")
  \/ RefreshGranted("manual")
  \/ ManualRefreshRespond

NextAccounts ==
  \/ AuthorizeAny
  \/ SetPrimary
  \/ \E id \in AccountIds : DeleteAccount(id)
  \/ ManualRefreshAny

SpecAccounts == Init /\ [][NextAccounts]_vars

(***************************************************************************)
(* Authorization callbacks, with and without a code, of up to MaxAccounts  *)
(* accounts, in any interleaving with each other and with account          *)
(* deletions, at one instant.                                              *)
(***************************************************************************)
CallbackRequests ==
  \E s \in CallbackSlots :
    \/ /\ Len(integrations) + InFlightCallbacks < MaxAccounts
       /\ CallbackArrive(s)
    \/ CallbackNoCode(s)
    \/ CallbackBadRequest(s)
    \/ CallbackExchangeFailed(s)
    \/ CallbackExchanged(s)
    \/ CallbackInsert(s)

NextCallbacks ==
  \/ CallbackRequests
  \/ \E id \in AccountIds : DeleteAccount(id)

SpecCallbacks == Init /\ [][NextCallbacks]_vars

(***************************************************************************)
(* Authorization flows: starts with and without account details, and       *)
(* callbacks that carry the state value of a start, no state value or a    *)
(* state value no start handed out, of up to MaxAccounts accounts, in any  *)
(* interleaving, at one instant.                                           *)
(***************************************************************************)
ForgedState == <<"forged">>

CallbackStates == issuedStates \cup {<<>>, ForgedState}

AuthorizationStarts ==
  \/ AuthStart
  \/ \E accountInfo \in AccountForms : AuthStartWithAccount(accountInfo)

AuthorizationCallbacks ==
  \E s \in CallbackSlots :
    \/ /\ Len(integrations) + InFlightCallbacks < MaxAccounts
       /\ \E state \in CallbackStates : CallbackArriveWithState(s, state)
    \/ CallbackExchangeFailed(s)
    \/ CallbackExchanged(s)
    \/ CallbackInsert(s)

NextAuthFlows ==
  \/ AuthorizationStarts
  \/ AuthorizationCallbacks

SpecAuthFlows == Init /\ [][NextAuthFlows]_vars

(***************************************************************************)
(* Sync runs of a connected account.  The account was authorized at time 0 *)
(* with any answer of the token endpoint; the runs happen at once or 300 s *)
(* later.  The guards written here bound the environment: how many runs    *)
(* start and how many fetches fail.                                        *)
(***************************************************************************)
SyncInstants == {0, 300 * 1000}

InitSync ==
  /\ \E tokenData \in {t \in TokenData(0) : t.refresh_token = "rt1"} :
       integrations =
         <<storeTokensRow(1, exchangeCodeForTokens(tokenData, 0), TRUE, 0,
                          DefaultAccountInfo)>>
  /\ now \in SyncInstants
  /\ isRunning = FALSE
  /\ cyc = [v \in CycleInvocations |-> LoopIdle]
  /\ hc = LoopIdle
  /\ mr = MrIdle
  /\ rf = [c \in RefreshCallers |-> RfIdle]
  /\ cb = [s \in CallbackSlots |-> CbIdle]
  /\ sp = [s \in SetPrimarySlots |-> SpIdle]
  /\ store = NoStore
  /\ sy = [k \in SyncKinds |-> SyncIdle]
  /\ started = 0
  /\ faults = 0
  /\ gone = {}
  /\ projectSize = 1
  /\ nr = <<>>
  /\ tempAccountInfo = <<>>
  /\ issuedStates = {}

SyncStarts ==
  /\ started < MaxRuns
  /\ \/ \E id \in AccountIds : ManualSyncNotFound(id)
     \/ \E id \in AccountIds : ManualSyncStart(id)
     \/ \E id \in AccountIds : ComprehensiveSyncNotFound(id)
     \/ \E id \in AccountIds : ComprehensiveSyncStart(id)
     \/ ScheduledSyncStart

SyncContinues ==
  \E k \in {"manual", "comprehensive"} :
    \/ SyncResourcesOk(k)
    \/ SyncResourcesUnauthorized(k)
    \/ faults < MaxFaults /\ SyncResourcesFailed(k)
    \/ SyncStepDone(k)
    \/ faults < MaxFaults /\ SyncStepFetchFails(k)
    \/ SyncCompleted(k)
    \/ SyncFailed(k)

ScheduledSyncContinues ==
  \/ ScheduledSyncResourcesOk
  \/ ScheduledSyncUnauthorized
  \/ ScheduledSyncProjects
  \/ ScheduledSyncIssues
  \/ faults < MaxFaults /\ ScheduledSyncFetchFails
  \/ ScheduledSyncEnd

NextSync ==
  \/ SyncStarts
  \/ SyncContinues
  \/ ScheduledSyncContinues

SpecSync == InitSync /\ [][NextSync]_vars

(***************************************************************************)
(* The same sync runs, one after another: a run starts when no other run   *)
(* is in progress.                                                         *)
(***************************************************************************)
NoRunInProgress == \A k \in SyncKinds : sy[k].pc = "idle"

NextSyncSerial ==
  \/ NoRunInProgress /\ SyncStarts
  \/ SyncContinues
  \/ ScheduledSyncContinues

SpecSyncSerial == InitSync /\ [][NextSyncSerial]_vars

(***************************************************************************)
(* Sync runs one after another, every fetch answered, against a Jira site  *)
(* in which entities are deleted between the runs: all the projects, the   *)
(* labels, the components or the versions.                                 *)
(***************************************************************************)
DeletedTypes == {"projects", "labels", "components", "versions"}

UpstreamShrinks ==
  /\ NoRunInProgress
  /\ Cardinality(gone) < MaxGone
  /\ \E T \in DeletedTypes : UpstreamEmptied(T)

SyncRunsAnswered ==
  \/ NoRunInProgress /\ SyncStarts
  \/ \E k \in {"manual", "comprehensive"} :
       \/ SyncResourcesOk(k)
       \/ SyncResourcesUnauthorized(k)
       \/ SyncStepDone(k)
       \/ SyncCompleted(k)
       \/ SyncFailed(k)
  \/ ScheduledSyncResourcesOk
  \/ ScheduledSyncUnauthorized
  \/ ScheduledSyncProjects
  \/ ScheduledSyncIssues
  \/ ScheduledSyncEnd

NextSyncUpstream ==
  \/ UpstreamShrinks
  \/ SyncRunsAnswered

SpecSyncUpstream == InitSync /\ [][NextSyncUpstream]_vars

(***************************************************************************)
(* Sync runs one after another against Jira sites whose project holds no   *)
(* issue, one issue, or one, one and a half or two pages of maxResults     *)
(* issues.  In SpecSyncLive every call in progress returns: a run in       *)
(* progress takes its next step.                                           *)
(***************************************************************************)
ProjectSizes == {0, 1, maxResults, maxResults + 50, 2 * maxResults}

InitSyncSites ==
  /\ \E tokenData \in {t \in TokenData(0) : t.refresh_token = "rt1"} :
       integrations =
         <<storeTokensRow(1, exchangeCodeForTokens(tokenData, 0), TRUE, 0,
                          DefaultAccountInfo)>>
  /\ now \in SyncInstants
  /\ isRunning = FALSE
  /\ cyc = [v \in CycleInvocations |-> LoopIdle]
  /\ hc = LoopIdle
  /\ mr = MrIdle
  /\ rf = [c \in RefreshCallers |-> RfIdle]
  /\ cb = [s \in CallbackSlots |-> CbIdle]
  /\ sp = [s \in SetPrimarySlots |-> SpIdle]
  /\ store = NoStore
  /\ sy = [k \in SyncKinds |-> SyncIdle]
  /\ started = 0
  /\ faults = 0
  /\ gone = {}
  /\ projectSize \in ProjectSizes
  /\ nr = <<>>
  /\ tempAccountInfo = <<>>
  /\ issuedStates = {}

SpecSyncSites == InitSyncSites /\ [][NextSyncSerial]_vars

SpecSyncLive ==
  /\ InitSyncSites
  /\ [][NextSyncSerial]_vars
  /\ WF_vars(SyncContinues)
  /\ WF_vars(ScheduledSyncContinues)

(***************************************************************************)
(* Sync runs of two connected accounts of one Jira site that overlap,      *)
(* every fetch answered: both accounts were authorized at time 0 and their *)
(* runs fetch the same upstream records.  The guards written here bound    *)
(* the environment: a manual and a comprehensive run in progress together  *)
(* take their steps in any order, but when both are at the same step the   *)
(* manual run goes first; the scheduled sync overlaps with them freely.    *)
(***************************************************************************)
OtherRun(k) == IF k = "manual" THEN "comprehensive" ELSE "manual"

StepTurn(k) ==
  \/ sy[OtherRun(k)].pc # "steps"
  \/ sy[k].pc # "steps"
  \/ sy[k].step # sy[OtherRun(k)].step
  \/ k = "manual"

InitSyncAccounts ==
  /\ \E tokenData \in {t \in TokenData(0) : t.refresh_token = "rt1"} :
       integrations =
         <<storeTokensRow(1, exchangeCodeForTokens(tokenData, 0), TRUE, 0,
                          DefaultAccountInfo),
           storeTokensRow(2, exchangeCodeForTokens(tokenData, 0), FALSE, 0,
                          DefaultAccountInfo)>>
  /\ now \in SyncInstants
  /\ isRunning = FALSE
  /\ cyc = [v \in CycleInvocations |-> LoopIdle]
  /\ hc = LoopIdle
  /\ mr = MrIdle
  /\ rf = [c \in RefreshCallers |-> RfIdle]
  /\ cb = [s \in CallbackSlots |-> CbIdle]
  /\ sp = [s \in SetPrimarySlots |-> SpIdle]
  /\ store = NoStore
  /\ sy = [k \in SyncKinds |-> SyncIdle]
  /\ started = 0
  /\ faults = 0
  /\ gone = {}
  /\ projectSize = 1
  /\ nr = <<>>
  /\ tempAccountInfo = <<>>
  /\ issuedStates = {}

SyncRunsInterleaved ==
  \/ /\ started < MaxRuns
     /\ \/ \E id \in RowIds : ManualSyncStart(id)
        \/ \E id \in RowIds : ComprehensiveSyncStart(id)
        \/ ScheduledSyncStart
  \/ \E k \in {"manual", "comprehensive"} :
       \/ SyncResourcesOk(k)
       \/ SyncResourcesUnauthorized(k)
       \/ StepTurn(k) /\ SyncStepDone(k)
       \/ SyncCompleted(k)
       \/ SyncFailed(k)
  \/ ScheduledSyncResourcesOk
  \/ ScheduledSyncUnauthorized
  \/ ScheduledSyncProjects
  \/ ScheduledSyncIssues
  \/ ScheduledSyncEnd

SpecSyncAccounts == InitSyncAccounts /\ [][SyncRunsInterleaved]_vars

(***************************************************************************)
(* The refresh cycle invoked again while it runs: the cron job fires a     *)
(* second time before the first invocation is over.  All of it happens at  *)
(* one instant.                                                            *)
(***************************************************************************)
RefreshCycleInvoked ==
  \E v \in CycleInvocations :
    \/ RefreshCycleStart(v)
    \/ RefreshCycleSkipped(v)
    \/ RefreshCycleSkipReturns(v)

RefreshCycleRuns ==
  \E v \in CycleInvocations :
    \/ RefreshCycleValid(v)
    \/ RefreshCycleCall(v)
    \/ RefreshCycleRefreshed(v)
    \/ RefreshCycleCatch(v)
    \/ RefreshCycleEnd(v)

NextCycles ==
  \/ Authorize
  \/ TokenEndpointAnswers
  \/ RefreshCycleInvoked
  \/ RefreshCycleRuns

SpecCycles == Init /\ [][NextCycles]_vars

(***************************************************************************)
(* Every operation on an account, one request or job at a time: the        *)
(* refresh cycle, the health check, manual refresh, set-primary, deletion  *)
(* and the three sync entry points, and a new authorization once no        *)
(* account is active.  A deletion is one statement and happens at any      *)
(* moment, also while a refresh waits for the token endpoint.  The         *)
(* environment is kept simple: the token endpoint issues the refresh token *)
(* rt1 at the exchange and no new one at a refresh, a sync run starts on a *)
(* blank store and Jira answers every fetch of it.                         *)
(***************************************************************************)
InProgress ==
  Busy + InFlightCallbacks +
  Cardinality({s \in SetPrimarySlots : sp[s].pc # "idle"}) +
  Cardinality({k \in SyncKinds : sy[k].pc # "idle"})

Reauthorize ==
  \/ /\ InProgress = 0
     /\ Len(integrations) < MaxAccounts
     /\ getActiveIntegrations = <<>>
     /\ CallbackArrive("cb1")
  \/ CallbackExchangeFailed("cb1")
  \/ CallbackExchanged("cb1") /\ cb'["cb1"].tokens.refreshToken = "rt1"
  \/ CallbackInsert("cb1")

TokenEndpointAnswersOne ==
  \E c \in RefreshCallers :
    \/ RefreshNetworkError(c)
    \/ RefreshBadBody(c)
    \/ /\ rf[c].st = "fetching"
       /\ integrations[rf[c].id].refresh_failures < MaxFailures
       /\ RefreshRejected(c)
    \/ RefreshGranted(c) /\ rf'[c].tokenData.refresh_token = NULL

RefreshOperations ==
  \/ InProgress = 0 /\ RefreshCycleStart("cycle")
  \/ RefreshCycleContinues
  \/ InProgress = 0 /\ HealthCheckStart
  \/ HealthCheckContinues
  \/ \E id \in AccountIds : ManualRefreshNotFound(id)
  \/ InProgress = 0 /\ \E id \in AccountIds : ManualRefreshFound(id)
  \/ ManualRefreshCall
  \/ ManualRefreshRespond

AccountOperations ==
  \/ InProgress = 0 /\ \E id \in AccountIds : SetPrimaryClear("sp1", id)
  \/ SetPrimarySet("sp1")
  \/ \E id \in AccountIds : DeleteAccount(id)

SyncOperations ==
  \/ InProgress = 0 /\ store = NoStore /\ SyncStarts
  \/ \E k \in {"manual", "comprehensive"} :
       \/ SyncResourcesOk(k)
       \/ SyncStepDone(k)
       \/ SyncCompleted(k)
       \/ SyncFailed(k)
  \/ ScheduledSyncResourcesOk
  \/ ScheduledSyncProjects
  \/ ScheduledSyncIssues
  \/ ScheduledSyncEnd

NextOperations ==
  \/ Reauthorize
  \/ TokenEndpointAnswersOne
  \/ RefreshOperations
  \/ AccountOperations
  \/ SyncOperations

SpecOperations == Init /\ [][NextOperations]_vars

(***************************************************************************)
(* needsRefresh as a function: any row, expired, near expiry, valid or     *)
(* without expires_at, evaluated at any time.                              *)
(***************************************************************************)
ExpiresAtValues == {<<>>} \cup {toISOString(sec * 1000) : sec \in 0..MaxExpirySec}

InitNeedsRefresh ==
  /\ \E text \in ExpiresAtValues :
       integrations =
         <<[storeTokensRow(1, NoTokens, TRUE, 0, DefaultAccountInfo)
              EXCEPT !.expires_at = text]>>
  /\ now = 0
  /\ isRunning = FALSE
  /\ cyc = [v \in CycleInvocations |-> LoopIdle]
  /\ hc = LoopIdle
  /\ mr = MrIdle
  /\ rf = [c \in RefreshCallers |-> RfIdle]
  /\ cb = [s \in CallbackSlots |-> CbIdle]
  /\ sp = [s \in SetPrimarySlots |-> SpIdle]
  /\ store = NoStore
  /\ sy = [k \in SyncKinds |-> SyncIdle]
  /\ started = 0
  /\ faults = 0
  /\ gone = {}
  /\ projectSize = 1
  /\ nr = <<>>
  /\ tempAccountInfo = <<>>
  /\ issuedStates = {}

\* authService.needsRefresh(integration) is evaluated
NeedsRefreshEvaluated ==
  /\ nr' = <<[at |-> now, value |-> needsRefresh(integrations[1], now)]>>
  /\ UNCHANGED <<integrations, now, refreshProcs, cb, sp, syncVars, authVars>>

NextNeedsRefresh ==
  \/ NeedsRefreshEvaluated
  \/ TimePasses

SpecNeedsRefresh == InitNeedsRefresh /\ [][NextNeedsRefresh]_vars

(***************************************************************************)
(* The refresh cycle that keeps being triggered, against a token endpoint  *)
(* that accepts every refresh token it is sent and issues tokens that live *)
(* longer than the refresh buffer.  Two accounts are active.  Account 1,   *)
(* the first of the cycle's loop, has an expired token and may lack a      *)
(* refresh token (its authorization returned none): refreshing it then     *)
(* throws before any request is made.  Account 2 has a refresh token; its  *)
(* token is expired, at the edge of the buffer or one second beyond it,    *)
(* and earlier rejections may have left any failure count.  The cron job   *)
(* fires again and again, also while an invocation runs, and time passes.   *)
(* Every invocation of the cycle that can take a step does so, and the     *)
(* token endpoint answers every request.                                   *)
(***************************************************************************)
ExpirySeeds == {0, 300 * 1000, 301 * 1000}

SeedRow(id, refreshToken, expiresAtMs, failures) ==
  [storeTokensRow(id, NoTokens, id = 1, 0, DefaultAccountInfo) EXCEPT
     !.access_token = IssuedAccessToken(0, 0),
     !.refresh_token = refreshToken,
     !.expires_at = toISOString(expiresAtMs),
     !.refresh_failures = failures]

InitRefreshLive ==
  /\ \E r \in {NULL, "rt1"}, f1 \in {0, MaxFailures}, e \in ExpirySeeds,
        f2 \in 0..MaxFailures :
       integrations = <<SeedRow(1, r, 0, f1), SeedRow(2, "rt1", e, f2)>>
  /\ now = 0
  /\ isRunning = FALSE
  /\ cyc = [v \in CycleInvocations |-> LoopIdle]
  /\ hc = LoopIdle
  /\ mr = MrIdle
  /\ rf = [c \in RefreshCallers |-> RfIdle]
  /\ cb = [s \in CallbackSlots |-> CbIdle]
  /\ sp = [s \in SetPrimarySlots |-> SpIdle]
  /\ store = NoStore
  /\ sy = [k \in SyncKinds |-> SyncIdle]
  /\ started = 0
  /\ faults = 0
  /\ gone = {}
  /\ projectSize = 1
  /\ nr = <<>>
  /\ tempAccountInfo = <<>>
  /\ issuedStates = {}

TokenEndpointAccepts ==
  \E c \in RefreshCallers :
    RefreshGranted(c) /\ rf'[c].tokenData.expires_in * 1000 > 5 * 60 * 1000

NextRefreshLive ==
  \/ RefreshCycleInvoked
  \/ RefreshCycleRuns
  \/ TokenEndpointAccepts
  \/ TimePasses

SpecRefreshLive ==
  /\ InitRefreshLive
  /\ [][NextRefreshLive]_vars
  /\ WF_vars(RefreshCycleInvoked)
  /\ WF_vars(RefreshCycleRuns)
  /\ WF_vars(TokenEndpointAccepts)

(***************************************************************************)
(* The refresh cycle over the same two accounts against a token endpoint   *)
(* that answers as it likes: it grants, rejects, sends a body that cannot  *)
(* be used, or the request fails.                                          *)
(***************************************************************************)
NextRefreshFaults ==
  \/ RefreshCycleInvoked
  \/ RefreshCycleRuns
  \/ TokenEndpointAnswers
  \/ TimePasses

SpecRefreshFaults == InitRefreshLive /\ [][NextRefreshFaults]_vars

(***************************************************************************)
(* The refresh cycle over the same two accounts, at one instant, when the  *)
(* database may fail as well: reading the active accounts may throw and so *)
(* may the deactivation UPDATE.  An invocation that can take a step does   *)
(* so, and a request to the token endpoint ends: with an answer, or, after *)
(* fetch's timeout at the latest, with an error.                           *)
(***************************************************************************)
RefreshCycleProceeds ==
  \/ RefreshCycleRuns
  \/ \E v \in CycleInvocations : RefreshCycleDeactivateThrows(v)
  \/ \E v \in CycleInvocations : RefreshCycleFinally(v)

NextCycleFaults ==
  \/ RefreshCycleInvoked
  \/ \E v \in CycleInvocations : RefreshCycleReadThrows(v)
  \/ RefreshCycleProceeds
  \/ TokenEndpointAnswers

SpecCycleFaults ==
  /\ InitRefreshLive
  /\ [][NextCycleFaults]_vars
  /\ WF_vars(RefreshCycleProceeds)
  /\ WF_vars(TokenEndpointAnswers)

(***************************************************************************)
(* Properties of needsRefresh.                                             *)
(***************************************************************************)
\* C7: an evaluation of needsRefresh returns TRUE exactly when expires_at
\* is absent or expires_at <= now + 300 s (FALSE for now + 301 s), and it
\* changes no row of the integrations table.
NeedsRefreshExactAndPure ==
  [][nr' # nr
       => /\ nr'[1].value =
               (\/ integrations[1].expires_at = <<>>
                \/ DateOf(integrations[1].expires_at) <= nr'[1].at + 300 * 1000)
          /\ nr'[1].at = now
          /\ integrations' = integrations]_vars

\* needsRefresh returned FALSE for a token that expires 301 s after the call
NeedsRefreshFalseAt301 ==
  /\ nr # <<>>
  /\ ~nr[1].value
  /\ integrations[1].expires_at = toISOString(nr[1].at + 301 * 1000)

(***************************************************************************)
(* Properties of the sync runs.                                            *)
(***************************************************************************)
\* the step in which a fetch of the entity-type step of run k throws
StepFetchThrows(k) ==
  /\ sy[k].pc = "steps"
  /\ sy[k].step <= NumSteps
  /\ sy'[k] # sy[k]
  /\ faults' = faults + 1

\* C2: when the fetch of an entity type of a sync run throws or is
\* rejected, the error does not leave the run: the run goes on with the
\* entity type that follows in the fixed order.
FetchFailureIsolated ==
  [][\A k \in {"manual", "comprehensive"} :
       StepFetchThrows(k)
         => sy'[k].pc = "steps" /\ sy'[k].step = sy[k].step + 1]_vars

\* C3: no two rows of one entity table share the same account and natural
\* key.
NaturalKeysUnique ==
  \A T \in EntityTypes :
    \A i, j \in 1..Len(store[T]) :
      (store[T][i].integration_id = store[T][j].integration_id
         /\ store[T][i].key = store[T][j].key) => i = j

\* the rows of the account in the table of T, without updated_at, as the
\* set of (row, number of copies)
ContentOf(rows, integrationId) ==
  LET own == SelectSeq(rows, LAMBDA r : r.integration_id = integrationId)
      cut(r) == [integration_id |-> r.integration_id, key |-> r.key,
                 raw_data |-> r.raw_data]
  IN  {<<cut(own[i]), Cardinality({j \in 1..Len(own) : cut(own[j]) = cut(own[i])})>> :
         i \in 1..Len(own)}

\* the step in which the entity-type step of run k ends with every fetch
\* answered
StepSucceeds(k) ==
  /\ sy[k].pc = "steps"
  /\ sy[k].step <= NumSteps
  /\ sy'[k].pc = "steps"
  /\ sy'[k].step = sy[k].step + 1
  /\ faults' = faults

\* C4: a sync of an entity type for an account whose table already holds
\* the rows of an earlier sync of that type, against the same upstream
\* data, leaves the number of rows and, apart from updated_at, their
\* values as they were.
RepeatedSyncIdempotent ==
  [][\A k \in {"manual", "comprehensive"} :
       LET T == Steps[sy[k].step]
       IN  (/\ StepSucceeds(k)
            /\ ContentOf(store[T], sy[k].id) # {})
             => /\ Len(store'[T]) = Len(store[T])
                /\ ContentOf(store'[T], sy[k].id) = ContentOf(store[T], sy[k].id)]_vars

\* the step in which a run starts its first entity-type step
SyncBegins(k) ==
  \/ sy[k].pc = "resources" /\ sy'[k].pc = "steps"
  \/ sy[k].pc = "loop" /\ sy'[k].pc = "projects"

\* C6: no sync run starts its first entity-type step while the stored
\* token of its account has expires_at <= now + 300 s.
SyncStartsWithFreshToken ==
  [][\A k \in SyncKinds :
       SyncBegins(k) => ~needsRefresh(integrations[sy'[k].id], now)]_vars

(***************************************************************************)
(* Properties of the account flags.                                        *)
(***************************************************************************)
\* C5: at most one account has both its active flag and its primary flag
\* set.
AtMostOneActivePrimary ==
  Cardinality({i \in RowIds : integrations[i].is_active /\ integrations[i].is_primary}) <= 1

(***************************************************************************)
(* Properties of the token lifecycle.                                      *)
(***************************************************************************)
\* the step in which the operation that made a failed refresh attempt for
\* the account id finishes: the endpoint responds, the cycle or the health
\* check leaves its loop
FinishedWithFailure(id) ==
  \/ mr.pc = "await" /\ mr'.pc = "idle" /\ mr.id = id /\ AttemptFailed(rf["manual"])
  \/ \E v \in CycleInvocations :
       cyc[v].pc = "loop" /\ cyc'[v].pc = "idle" /\ id \in cyc[v].failed
  \/ hc.pc = "loop" /\ hc'.pc = "idle" /\ id \in hc.failed

\* C1: when the operation (refresh cycle, health check, manual refresh
\* endpoint) that made a failed refresh attempt for an account finishes and
\* the account's failure counter is 3 or more, the account is inactive.
FailureThresholdDeactivates ==
  [][\A id \in RowIds :
       FinishedWithFailure(id) /\ integrations'[id].refresh_failures >= 3
         => ~integrations'[id].is_active]_vars

\* the step in which the token endpoint's answer ends the call of caller c
RefreshAttemptFails(c) == rf[c].st = "fetching" /\ rf'[c].st = "err"
RefreshSucceeds(c) == rf[c].st = "fetching" /\ rf'[c].st = "ok"

\* C8: every refresh attempt that presented a refresh token to the token
\* endpoint and did not succeed (non-2xx, network error, unusable body)
\* increments the account's stored failure counter by exactly one and
\* throws the refresh-failed error.
EveryFailedAttemptCounted ==
  [][\A c \in RefreshCallers :
       RefreshAttemptFails(c)
         => /\ integrations'[rf[c].id].refresh_failures =
                 integrations[rf[c].id].refresh_failures + 1
            /\ rf'[c].error = "RefreshFailed"]_vars

\* C9: a successful refresh stores the new access token and expiry, sets
\* last_refresh_at to the time of the refresh, resets the failure counter
\* to 0, leaves the stored refresh token as it was when the response
\* carries none, and leaves needsRefresh false when the granted lifetime
\* exceeds 300 s.
SuccessfulRefreshPostconditions ==
  [][\A c \in RefreshCallers :
       RefreshSucceeds(c)
         => LET old == integrations[rf[c].id]
                new == integrations'[rf[c].id]
                tokenData == rf'[c].tokenData
            IN  /\ new.access_token = tokenData.access_token
                /\ new.expires_at = toISOString(now + tokenData.expires_in * 1000)
                /\ new.last_refresh_at = toISOString(now)
                /\ new.refresh_failures = 0
                /\ tokenData.refresh_token = NULL
                     => new.refresh_token = old.refresh_token
                /\ tokenData.expires_in > 300 => ~needsRefresh(new, now)]_vars

\* the step in which caller c calls refreshAccessToken (the call runs to its
\* first await on the token endpoint, or to an early throw)
RefreshCalled(c) == rf[c].st = "idle" /\ rf'[c].st # "idle"

HandledNoRefreshToken(id) ==
  \/ /\ mr.pc = "await" /\ mr'.pc = "idle" /\ mr.id = id
     /\ rf["manual"].st = "err" /\ rf["manual"].error = "NoRefreshToken"
  \/ \E v \in CycleInvocations :
       /\ cyc[v].pc = "await" /\ cyc'[v].pc = "loop" /\ cyc[v].list[cyc[v].idx].id = id
       /\ rf[v].st = "err" /\ rf[v].error = "NoRefreshToken"

\* C11: after the refresh cycle or the manual endpoint has handled a refresh
\* attempt on an active account that has no refresh token, the account is
\* inactive.
NoRefreshTokenDeactivates ==
  [][\A id \in RowIds :
       HandledNoRefreshToken(id) => ~integrations'[id].is_active]_vars

\* the account was deactivated after its failure counter reached the threshold
DeactivatedByFailures(id) ==
  /\ id \in RowIds
  /\ ~integrations[id].is_active
  /\ integrations[id].refresh_failures >= 3

\* the step in which the refreshAccessToken call of caller c ends
RefreshCallEnds(c) == rf[c].st \in {"idle", "fetching"} /\ RefreshReturned(c)'

\* C12: every refreshAccessToken call for an account deactivated by
\* repeated refresh failures ends with the refresh-failed error, the error
\* of the failures that led to the deactivation.
DeactivatedRefreshFailsAlike ==
  [][\A c \in RefreshCallers :
       RefreshCallEnds(c) /\ DeactivatedByFailures(rf'[c].id)
         => rf'[c].st = "err" /\ rf'[c].error = "RefreshFailed"]_vars

\* the step in which storeTokens inserts the row of a new account
AccountCreated(id) ==
  /\ id \notin RowIds
  /\ \E s \in CallbackSlots : cb[s].pc = "insert" /\ cb'[s].pc = "idle"

\* C13: no step sets the active flag of an inactive account to true; an
\* account that is active after a step was active before it or is the new
\* record inserted by an authorization callback.
InactiveIsLatched ==
  [][\A id \in DOMAIN integrations' :
       integrations'[id].is_active
         => \/ id \in RowIds /\ integrations[id].is_active
            \/ AccountCreated(id)]_vars

\* an inactive account was made primary after the account authorized after
\* its deactivation was created, and it is still inactive next to that one
PrimarySetWhileInactive ==
  \E id \in RowIds, new \in RowIds :
    /\ id < new
    /\ ~integrations[id].is_active /\ integrations[id].is_primary
    /\ integrations[new].is_active /\ ~integrations[new].is_primary

\* invocation v of the refresh cycle is past the guard and not yet over
Executing(v) == cyc[v].pc \in {"loop", "await"}

\* the step in which invocation v arrives while another invocation executes
ArrivesWhileRunning(v) ==
  /\ cyc[v].pc = "idle" /\ cyc'[v].pc # "idle"
  /\ \E w \in CycleInvocations \ {v} : Executing(w)

\* C14: at most one invocation of the refresh cycle executes at any time; an
\* invocation that arrives while another executes returns at once: it reads
\* no account, changes no row and starts no refresh, and after its return
\* it is idle again, not executing.
OneRefreshCycleAtATime ==
  [][/\ Cardinality({v \in CycleInvocations : Executing(v)'}) <= 1
     /\ \A v \in CycleInvocations :
          /\ ArrivesWhileRunning(v)
               => /\ cyc'[v] = [LoopIdle EXCEPT !.pc = "skipped"]
                  /\ UNCHANGED <<integrations, isRunning, rf>>
          /\ cyc[v].pc = "skipped" /\ cyc'[v] # cyc[v]
               => /\ cyc'[v] = LoopIdle
                  /\ UNCHANGED <<integrations, isRunning, rf>>]_vars

\* an invocation was skipped while the other waits for a refresh
CycleSkippedWhileRunning ==
  \E v \in CycleInvocations, w \in CycleInvocations :
    cyc[v].pc = "skipped" /\ cyc[w].pc = "await" /\ isRunning

\* the step in which run k gets its failed outcome
RunFails(k) == sy[k].pc # "failed" /\ sy'[k].pc = "failed"

\* C15: a sync run gets a failed outcome only before its first entity-type
\* step, when its account or its credential is not available; no failure
\* inside an entity-type step makes the run fail.
RunFailsOnlyForCredentials ==
  [][\A k \in {"manual", "comprehensive"} :
       RunFails(k) => sy[k].pc \in {"idle", "resources"}]_vars

\* the step in which the request of run k arrives and reads the account's row
RequestStarts(k) == sy[k].pc = "idle" /\ sy'[k].pc # "idle"

\* C16: a sync request for an account that is inactive or absent when the
\* request starts fails at once, before any use of the stored credential
\* and any entity-type step; the scheduled sync lists active accounts only.
InactiveAccountNeverSynced ==
  [][/\ \A k \in {"manual", "comprehensive"} :
          RequestStarts(k) /\ ActiveRow(sy'[k].id) = {} => sy'[k].pc = "failed"
     /\ RequestStarts("scheduled")
          => \A i \in 1..Len(sy'["scheduled"].list) :
               ActiveRow(sy'["scheduled"].list[i]) # {}]_vars

\* the place of the step of T in the order of the run
StepIndex(T) == CHOOSE i \in 1..NumSteps : Steps[i] = T

\* the step of T of run k is over
Finished(k, T) == StepIndex(T) < sy[k].step

\* the step in which run k, at an entity-type step, moves
StepMoves(k) == sy[k].pc = "steps" /\ sy[k].step <= NumSteps /\ sy'[k] # sy[k]

\* C17: a sync run is at one entity-type step at a time: when it moves,
\* only the table of that step changes and the run ends or goes to the
\* step that follows; the project step is over when the component and
\* version steps run, these are over when the issue step runs, and the
\* issue step is over when the comment, worklog, attachment and link steps
\* run.  The scheduled sync reads the issues of an account after its
\* projects.
StepsRunInOrder ==
  [][/\ \A k \in {"manual", "comprehensive"} :
          StepMoves(k)
            => LET T == Steps[sy[k].step]
               IN  /\ \A U \in EntityTypes \ {T} : store'[U] = store[U]
                   /\ sy'[k].pc = "steps" => sy'[k].step = sy[k].step + 1
                   /\ T \in {"components", "versions"} => Finished(k, "projects")
                   /\ T = "issues"
                        => Finished(k, "components") /\ Finished(k, "versions")
                   /\ T \in {"comments", "worklogs", "attachments", "links"}
                        => Finished(k, "issues")
     /\ sy["scheduled"].pc # "issues" /\ sy'["scheduled"].pc = "issues"
          => sy["scheduled"].pc = "projects"]_vars

\* a run that stored projects, components and versions is at its link step
RunAtLinkStep ==
  \E k \in {"manual", "comprehensive"} :
    /\ sy[k].pc = "steps"
    /\ sy[k].step = StepIndex("links")
    /\ \A T \in {"projects", "components", "versions"} :
         \E i \in 1..Len(store[T]) : store[T][i].integration_id = sy[k].id

IssueSubSteps == {"comments", "worklogs", "attachments", "links"}

\* the rows the step of this transition appended to the table of T
AddedRows(T) == SubSeq(store'[T], Len(store[T]) + 1, Len(store'[T]))

\* the issue keys for which the rows were fetched
RequestedKeys(rows) == {rows[i].key[2] : i \in 1..Len(rows)}

\* the issue keys of the account in the store
StoredIssueKeys(integrationId) ==
  {store["issues"][i].key :
     i \in {j \in 1..Len(store["issues"]) :
              store["issues"][j].integration_id = integrationId}}

\* the issue keys the issue step of a run of the account receives: the issues
\* of its stored projects
ReceivedIssueKeys(integrationId) ==
  LET projects == StoredKeys("projects", integrationId)
  IN  UNION {{UpstreamRecords("issues", projects[i])[j].key :
                 j \in 1..Len(UpstreamRecords("issues", projects[i]))} :
               i \in 1..Len(projects)}

RowsOf(rows, integrationId, key) ==
  {i \in 1..Len(rows) : rows[i].integration_id = integrationId /\ rows[i].key = key}

\* C19: after a step of any sync path has written a table, the row it wrote
\* last is the only row of its account and natural key: the row stored for
\* that key by an earlier sync, with all its columns, is gone.
UpsertReplacesStoredRow ==
  [][\A T \in EntityTypes :
       store'[T] # store[T]
         => LET last == Len(store'[T])
                row == store'[T][last]
            IN  RowsOf(store'[T], row.integration_id, row.key) = {last}]_vars

\* the (account id, natural key) pairs of the rows of a table
EntitiesOf(rows) == {<<rows[i].integration_id, rows[i].key>> : i \in 1..Len(rows)}

\* C20: no step of a sync run removes an entity: every (account id, entity
\* type, natural key) the store holds before a step it holds after it, also
\* when the entity was deleted upstream.
SyncNeverRemovesEntities ==
  [][\A T \in EntityTypes : EntitiesOf(store[T]) \subseteq EntitiesOf(store'[T])]_vars

\* a run is past its step of an entity type whose entities were deleted
\* upstream before the run started, and the store still holds rows of that
\* type for the account
DeletedUpstreamStillStored ==
  \E k \in {"manual", "comprehensive"} : \E T \in gone :
    /\ sy[k].pc = "steps"
    /\ StepIndex(T) < sy[k].step
    /\ \E i \in 1..Len(store[T]) : store[T][i].integration_id = sy[k].id

\* the rows of an account in a table, in their order
AccountRows(rows, integrationId) ==
  SelectSeq(rows, LAMBDA r : r.integration_id = integrationId)

\* the account whose tables the step of run k writes, 0 when it writes none
WritingFor(k) ==
  IF k = "scheduled"
  THEN IF sy[k].pc \in {"projects", "issues"} THEN sy[k].id ELSE 0
  ELSE IF sy[k].pc = "steps" THEN sy[k].id ELSE 0

\* C21: a step of a sync run for an account, whatever the runs of other
\* accounts in progress do, leaves the rows of every other account in every
\* entity table as they are, also when the step stores a row with a natural
\* key that a row of another account has.
SyncWritesOwnAccountOnly ==
  [][\A k \in SyncKinds :
       sy'[k] # sy[k]
         => \A B \in RowIds \ {WritingFor(k)} : \A T \in EntityTypes :
              AccountRows(store'[T], B) = AccountRows(store[T], B)]_vars

\* runs of the two accounts are in progress together, both past the project
\* step, and the project table holds a row of each account with the same
\* project key
OverlappingRunsShareKey ==
  /\ sy["manual"].pc = "steps" /\ sy["comprehensive"].pc = "steps"
  /\ sy["manual"].id # sy["comprehensive"].id
  /\ sy["manual"].step > 1 /\ sy["comprehensive"].step > 1
  /\ \E i, j \in 1..Len(store["projects"]) :
       /\ store["projects"][i].integration_id = 1
       /\ store["projects"][j].integration_id = 2
       /\ store["projects"][i].key = store["projects"][j].key

\* the step in which the syncIssuesToDatabase call of the scheduled sync ends
\* with its fetches answered
IssueSyncEnds ==
  /\ sy["scheduled"].pc = "issues"
  /\ sy'["scheduled"].pc # "issues"
  /\ faults' = faults

\* C22: for a project whose first k >= 1 pages hold maxResults issues each and
\* whose page k+1 holds fewer, the paginated issue sync ends after k+1
\* fetches that request the offsets 0, maxResults, 2*maxResults, ... in turn,
\* with a total equal to the number of issues of the project.
PaginationFetchesEveryPage ==
  [][IssueSyncEnds /\ projectSize >= maxResults
       => LET k == projectSize \div maxResults
              requests == sy'["scheduled"].requests
          IN  /\ Len(requests) = k + 1
              /\ \A i \in 1..Len(requests) :
                   RequestedOffset(requests[i]) = (i - 1) * maxResults
              /\ sy'["scheduled"].totalIssues = projectSize]_vars

\* C23: when every call in progress returns, a sync run that has started
\* completes: its entry point is idle again; so does the scheduled sync of a
\* project that holds maxResults issues or more.
EverySyncRunCompletes ==
  \A k \in SyncKinds : (sy[k].pc # "idle") ~> (sy[k].pc = "idle")

\* the scheduled sync of a project with at least maxResults issues is over:
\* no run is in progress and the project table holds the row it wrote
ScheduledSyncOfLargeProjectOver ==
  /\ projectSize >= maxResults
  /\ NoRunInProgress
  /\ \E i \in 1..Len(store["projects"]) : store["projects"][i].raw_data = NULL

\* the fetched records that carry their natural key
WithNaturalKey(records) == SelectSeq(records, LAMBDA r : r.key # <<>>)

\* C24: a step whose fetch is answered stores one row for every fetched
\* record that carries its natural key and none for a record that lacks it,
\* and the run goes on to the next step.
RecordWithoutKeySkipped ==
  [][\A k \in {"manual", "comprehensive"} :
       StepSucceeds(k) /\ Isolation(Steps[sy[k].step]) # "parent"
         => LET T == Steps[sy[k].step]
            IN  /\ Len(AddedRows(T)) = Len(WithNaturalKey(UpstreamRecords(T, <<>>)))
                /\ \A i \in 1..Len(AddedRows(T)) :
                     \E j \in 1..Len(UpstreamRecords(T, <<>>)) :
                       AddedRows(T)[i].key = UpstreamRecords(T, <<>>)[j].key]_vars

\* the step in which run k ends and its result is answered
RunEnds(k) == sy[k].pc \in {"steps", "failed"} /\ sy'[k].pc = "idle"

\* what manualSync returns and what the comprehensive-sync endpoint answers:
\* success when syncAllData returned, the message of the error when a call
\* threw
syncResult(k, threw) ==
  IF k = "manual"
  THEN IF threw THEN [success |-> FALSE, error |-> "message"] ELSE [success |-> TRUE]
  ELSE IF threw THEN [status |-> 500, error |-> "message"]
       ELSE [status |-> 200, success |-> TRUE,
             message |-> "Comprehensive sync completed successfully"]

\* C25: the result of a sync run tells a run in which the fetch of exactly
\* one entity type failed from a run in which every type succeeded: the
\* result of the only run so far, one fetch of which failed, is not the
\* result of a run without failure.
ResultReportsFailedType ==
  [][\A k \in {"manual", "comprehensive"} :
       RunEnds(k) /\ started = 1 /\ faults = 1
         => syncResult(k, sy[k].pc = "failed") # syncResult(k, FALSE)]_vars

\* C26: storeTokens creates the new account as primary exactly when no
\* account record exists when it is called, and its insert changes no
\* existing record: the flag it decides on at its start is TRUE exactly for
\* an empty integrations table, and the row it inserts carries that flag.
FirstAccountOnlyIsPrimary ==
  [][\A s \in CallbackSlots :
       /\ cb[s].pc = "exchange" /\ cb'[s].pc = "insert"
            => (cb'[s].isFirstIntegration <=> integrations = <<>>)
       /\ cb[s].pc = "insert" /\ cb'[s].pc = "idle"
            => /\ Len(integrations') = Len(integrations) + 1
               /\ integrations'[Len(integrations')].is_primary = cb[s].isFirstIntegration
               /\ \A i \in RowIds : integrations'[i] = integrations[i]]_vars

\* C27: an authorization callback whose code exchange succeeds inserts one
\* record, active and with failure counter 0, and changes no other record;
\* a callback whose exchange is answered non-2xx, or that carries no code,
\* ends without inserting or changing a record.
CallbackCreatesOneAccountOrNone ==
  [][\A s \in CallbackSlots :
       /\ cb[s].pc = "insert" /\ cb'[s].pc = "idle"
            => /\ Len(integrations') = Len(integrations) + 1
               /\ integrations'[Len(integrations')].is_active
               /\ integrations'[Len(integrations')].refresh_failures = 0
               /\ \A i \in RowIds : integrations'[i] = integrations[i]
       /\ cb'[s] # cb[s] /\ ~(cb[s].pc = "insert" /\ cb'[s].pc = "idle")
            => integrations' = integrations]_vars

\* a second account was created next to the first, and a callback without
\* code is being answered
SecondAccountAndCallbackWithoutCode ==
  /\ Len(integrations) = 2
  /\ \E s \in CallbackSlots : cb[s].pc = "nocode"

\* C28: an issue record whose parent issue is not in the store is stored
\* like any other record: an issue step whose fetches are answered adds a
\* row for every issue of the stored projects, whatever issue its parent key
\* names, and the run goes on.
DanglingReferenceStored ==
  [][\A k \in {"manual", "comprehensive"} :
       StepSucceeds(k) /\ Steps[sy[k].step] = "issues"
         => LET projects == StoredKeys("projects", sy[k].id)
            IN  \A p \in 1..Len(projects) :
                  \A j \in 1..Len(UpstreamRecords("issues", projects[p])) :
                    LET record == UpstreamRecords("issues", projects[p])[j]
                    IN  record.parent_key \notin StoredIssueKeys(sy[k].id)
                          => \E i \in 1..Len(AddedRows("issues")) :
                               /\ AddedRows("issues")[i].key = record.key
                               /\ AddedRows("issues")[i].integration_id = sy[k].id]_vars

\* C29: nothing keeps a manual sync and a scheduled sync of one account
\* apart: while the scheduled sync is in progress a manual sync of an
\* active account can start, while a manual sync is in progress the
\* scheduled sync can start, and while both are in progress each can take
\* its next step.
ManualAndScheduledSyncOverlap ==
  /\ \A id \in RowIds :
       sy["scheduled"].pc # "idle" /\ sy["manual"].pc = "idle" /\ ActiveRow(id) # {}
         => ENABLED ManualSyncStart(id)
  /\ sy["manual"].pc # "idle" /\ sy["scheduled"].pc = "idle"
       => ENABLED ScheduledSyncStart
  /\ sy["manual"].pc = "steps" /\ sy["manual"].step <= NumSteps
       /\ sy["scheduled"].pc = "projects"
       => ENABLED SyncStepDone("manual") /\ ENABLED ScheduledSyncProjects

\* both runs are in progress for the same account and their writes have
\* alternated: the project table holds the row of the manual run and after
\* it the row of the scheduled run, and the manual run has since written the
\* issue type table
WritesOfBothRunsAlternate ==
  /\ sy["manual"].pc = "steps" /\ sy["manual"].step > StepIndex("issueTypes")
  /\ sy["scheduled"].pc = "issues"
  /\ sy["scheduled"].id = sy["manual"].id
  /\ Len(store["projects"]) = 2
  /\ store["projects"][1].raw_data # NULL
  /\ store["projects"][2].raw_data = NULL
  /\ store["issueTypes"] # <<>>

\* C30: when the refresh cycle keeps being triggered and the token endpoint
\* accepts the refresh token of an account, an active account that has a
\* refresh token and whose token is expired or within 300 s of expiry
\* reaches a state in which needsRefresh is false for it and its failure
\* count is 0.
DueForRefresh(i) ==
  /\ i \in RowIds
  /\ integrations[i].is_active
  /\ integrations[i].refresh_token # NULL
  /\ needsRefresh(integrations[i], now)

Refreshed(i) ==
  /\ i \in RowIds
  /\ ~needsRefresh(integrations[i], now)
  /\ integrations[i].refresh_failures = 0

OtherRowsUnchanged(id) ==
  /\ Len(integrations') = Len(integrations)
  /\ \A i \in RowIds \ {id} : integrations'[i] = integrations[i]

FailedRefreshDoesNotStopCycle ==
  [][\A v \in CycleInvocations :
       /\ cyc[v].pc = "await" /\ cyc'[v].pc # "await" /\ rf[v].st = "err"
            => /\ cyc'[v].pc = "loop"
               /\ cyc'[v].list = cyc[v].list
               /\ cyc'[v].idx = cyc[v].idx + 1
               /\ OtherRowsUnchanged(rf[v].id)
       /\ rf[v].st # "err" /\ rf'[v].st = "err" => OtherRowsUnchanged(rf'[v].id)
       /\ cyc[v].pc = "loop" /\ cyc'[v].pc = "loop" /\ cyc'[v].idx # cyc[v].idx
            => ~needsRefresh(cyc[v].list[cyc[v].idx], now)
       /\ cyc[v].pc \in {"loop", "await"} /\ cyc'[v].pc = "idle"
            => cyc[v].pc = "loop" /\ cyc[v].idx > Len(cyc[v].list)]_vars

\* the refresh of account 1 was rejected in this cycle, and the cycle went
\* on to account 2, whose refresh was granted
SecondAccountRefreshedAfterFailure ==
  \E v \in CycleInvocations :
    /\ cyc[v].pc = "await"
    /\ cyc[v].idx = 2
    /\ 1 \in cyc[v].failed
    /\ rf[v].id = 2
    /\ rf[v].st = "ok"

\* C32: after an issue step of a comprehensive sync that completes without
\* error, the store holds a row of the account for every issue of every
\* project in the account's stored project list, whatever the number of
\* issues of a project.
IssueStepStoresEveryIssue ==
  [][\A k \in {"manual", "comprehensive"} :
       StepSucceeds(k) /\ Steps[sy[k].step] = "issues"
         => LET projects == StoredKeys("projects", sy[k].id)
            IN  \A p \in 1..Len(projects) :
                  \A j \in 1..projectSize :
                    \E i \in 1..Len(store'["issues"]) :
                      /\ store'["issues"][i].integration_id = sy[k].id
                      /\ store'["issues"][i].key = <<"issues", projects[p], j>>]_vars

\* C33: every refresh cycle that starts ends, and when it ends, after the
\* last account or after an error of the database, the guard isRunning is
\* cleared; so the guard does not stay set.
CycleStarted(v) == cyc[v].pc \in {"loop", "await", "thrown"}

CycleEndsAndClearsGuard ==
  /\ [][\A v \in CycleInvocations :
          CycleStarted(v) /\ cyc'[v].pc = "idle" => ~isRunning']_vars
  /\ \A v \in CycleInvocations : CycleStarted(v) ~> cyc[v].pc = "idle"
  /\ isRunning ~> ~isRunning

\* the deactivation UPDATE of a cycle threw after a failed refresh, while
\* another invocation of the cycle was skipped: the cycle is about to end
CycleThrewWhileOtherSkipped ==
  \E v, w \in CycleInvocations :
    /\ cyc[v].pc = "thrown"
    /\ cyc[v].list # <<>>
    /\ isRunning
    /\ cyc[w].pc = "skipped"

\* C34: when refreshes of one account overlap, a refresh that is granted
\* after another one stored a rotated refresh token does not put back the
\* refresh token it read before its own request: where the row holds
\* another refresh token than the call read, and the answer carries none,
\* the row does not hold the token the call read afterwards.
RotatedRefreshTokenKept ==
  [][\A c \in RefreshCallers :
       /\ rf[c].st = "fetching"
       /\ rf'[c].st = "ok"
       /\ rf'[c].tokenData.refresh_token = NULL
       /\ integrations[rf[c].id].refresh_token # rf[c].refresh_token
       => integrations'[rf[c].id].refresh_token # rf[c].refresh_token]_vars

\* C35: when authorization flows started with account details overlap, the
\* callback of a flow stores the account name, e-mail and domain submitted
\* at the start of that flow: the row inserted for a callback whose state
\* value was handed out by a start with account details holds the details
\* of the form that state value names.
SubmittedWith(state) == CHOOSE f \in AccountForms : f.accountName = state[3]

CallbackStoresOwnAccountInfo ==
  [][\A s \in CallbackSlots :
       /\ cb[s].pc = "insert"
       /\ cb'[s].pc = "idle"
       /\ cb[s].state \in issuedStates
       /\ cb[s].state[1] = "account"
       => LET row == integrations'[Len(integrations')]
              form == SubmittedWith(cb[s].state)
          IN  /\ row.account_name = form.accountName
              /\ row.account_email = form.accountEmail
              /\ row.jira_domain = form.jiraDomain]_vars

\* C36: tokens are exchanged and an account row is created only for a
\* callback whose state parameter is a state value handed out by an earlier
\* authorization start.
AccountOnlyForIssuedState ==
  [][\A s \in CallbackSlots :
       \/ cb[s].pc = "exchange" /\ cb'[s].pc = "insert"
       \/ cb[s].pc = "insert" /\ Len(integrations') = Len(integrations) + 1
       => cb[s].state \in issuedStates]_vars

\* C37: a set-primary request for an id that names no account changes no
\* account's primary flag: neither of its two statements changes is_primary
\* in any row.
SetPrimaryUnknownIdChangesNothing ==
  [][\A s \in SetPrimarySlots :
       LET id == IF sp[s].pc = "idle" THEN sp'[s].id ELSE sp[s].id
       IN  sp'[s] # sp[s] /\ id \notin RowIds
             => \A i \in RowIds :
                  integrations'[i].is_primary = integrations[i].is_primary]_vars

====
